---- MODULE Spec2Model ----
(***************************************************************************)
(* A model of the pin generator (pinGenerator.ts, carried in               *)
(* src/server.ts lines 719-1060): configuration resolution, size           *)
(* validation, base pin preparation, the per-icon loop and the settings    *)
(* document, as one run of generatePins over a modelled file system.       *)
(***************************************************************************)
EXTENDS Integers, Sequences, FiniteSets, TLC

(***************************************************************************)
(* Bounds of the model.                                                    *)
(***************************************************************************)
\* the icon directory holds at most this many entries
MaxIcons == 2
\* the base pins' intrinsic width and height range over 1..MaxBaseSide
MaxBaseSide == 3

\* the largest number of words in an SVG text handed to a recolouring call
MaxWords == 2

(***************************************************************************)
(* JavaScript numbers: NaN, +-Infinity and finite rationals n/d (d > 0).   *)
(***************************************************************************)
NaN == [k |-> "nan", n |-> 0, d |-> 1]

Inf(s) == [k |-> "inf", n |-> s, d |-> 1]

Num(n, d) == [k |-> "fin", n |-> n, d |-> d]

Int2Num(i) == Num(i, 1)

Sign(a) == IF a.n > 0 THEN 1 ELSE IF a.n < 0 THEN -1 ELSE 0

\* a * b on JavaScript numbers
Mul(a, b) ==
  IF a.k = "nan" \/ b.k = "nan" THEN NaN
  ELSE IF a.k = "inf" \/ b.k = "inf"
       THEN IF Sign(a) * Sign(b) = 0 THEN NaN ELSE Inf(Sign(a) * Sign(b))
       ELSE Num(a.n * b.n, a.d * b.d)

\* a + b on JavaScript numbers
Add(a, b) ==
  IF a.k = "nan" \/ b.k = "nan" THEN NaN
  ELSE IF a.k = "inf" /\ b.k = "inf"
       THEN IF a.n = b.n THEN a ELSE NaN
       ELSE IF a.k = "inf" THEN a
       ELSE IF b.k = "inf" THEN b
       ELSE Num(a.n * b.d + b.n * a.d, a.d * b.d)

\* a < b on JavaScript numbers (false when either is NaN)
Lt(a, b) ==
  IF a.k = "nan" \/ b.k = "nan" THEN FALSE
  ELSE IF a.k = "inf" THEN a.n < 0 /\ ~(b.k = "inf" /\ b.n < 0)
  ELSE IF b.k = "inf" THEN b.n > 0
  ELSE a.n * b.d < b.n * a.d

\* a = b as numbers (false when either is NaN)
NumEq(a, b) ==
  IF a.k = "nan" \/ b.k = "nan" THEN FALSE
  ELSE IF a.k = "inf" \/ b.k = "inf" THEN a.k = b.k /\ a.n = b.n
  ELSE a.n * b.d = b.n * a.d

Gt(a, b) == Lt(b, a)

Leq(a, b) == Lt(a, b) \/ NumEq(a, b)

\* Math.round: the nearest integer, halves rounded towards +Infinity
MathRound(a) ==
  IF a.k = "fin" THEN Num((2 * a.n + a.d) \div (2 * a.d), 1) ELSE a

\* Math.min of two numbers (NaN when either is NaN)
MathMin(a, b) ==
  IF a.k = "nan" \/ b.k = "nan" THEN NaN
  ELSE IF Lt(b, a) THEN b ELSE a

\* Number.isFinite
IsFinite(a) == a.k = "fin"

\* a finite number holding a positive integer: what sharp accepts as a size
IsPosInt(a) == a.k = "fin" /\ a.n > 0 /\ a.n % a.d = 0

\* the integer held by a finite integral number
IntOf(a) == a.n \div a.d

(***************************************************************************)
(* Number(string) for the strings the runs are given: an optional sign,    *)
(* then Infinity or decimal digits with an optional fraction.  The empty   *)
(* string is 0 and anything else is NaN.  (Exponents, hexadecimal and      *)
(* surrounding blanks are not among the modelled inputs.)                  *)
(***************************************************************************)
DigitVal(c) ==
  CASE c = "0" -> 0 [] c = "1" -> 1 [] c = "2" -> 2 [] c = "3" -> 3
    [] c = "4" -> 4 [] c = "5" -> 5 [] c = "6" -> 6 [] c = "7" -> 7
    [] c = "8" -> 8 [] c = "9" -> 9 [] OTHER -> -1

CharAt(s, i) == SubSeq(s, i, i)

AllDigits(s) == \A i \in 1..Len(s) : DigitVal(CharAt(s, i)) >= 0

RECURSIVE DigitsValue(_)
DigitsValue(s) ==
  IF Len(s) = 0 THEN 0
  ELSE DigitsValue(SubSeq(s, 1, Len(s) - 1)) * 10 + DigitVal(CharAt(s, Len(s)))

RECURSIVE Pow10(_)
Pow10(n) == IF n = 0 THEN 1 ELSE 10 * Pow10(n - 1)

UnsignedDecimal(s) ==
  LET dots == {i \in 1..Len(s) : CharAt(s, i) = "."}
      dot  == IF dots = {} THEN 0 ELSE CHOOSE i \in dots : \A j \in dots : i <= j
      ip   == IF dot = 0 THEN s ELSE SubSeq(s, 1, dot - 1)
      fp   == IF dot = 0 THEN "" ELSE SubSeq(s, dot + 1, Len(s))
  IN  IF AllDigits(ip) /\ AllDigits(fp) /\ Len(ip) + Len(fp) > 0
      THEN Num(DigitsValue(ip) * Pow10(Len(fp)) + DigitsValue(fp), Pow10(Len(fp)))
      ELSE NaN

ToNumber(s) ==
  IF s = "" THEN Num(0, 1)
  ELSE LET first  == CharAt(s, 1)
           signed == first \in {"+", "-"}
           body   == IF signed THEN SubSeq(s, 2, Len(s)) ELSE s
           sg     == IF first = "-" THEN -1 ELSE 1
       IN  IF body = "Infinity" THEN Inf(sg)
           ELSE LET u == UnsignedDecimal(body)
                IN  IF u.k = "fin" THEN Num(sg * u.n, u.d) ELSE NaN

(***************************************************************************)
(* Environments.  An environment maps every option name to a string, to    *)
(* an explicit undefined, or to nothing at all (the key is absent).        *)
(***************************************************************************)
ColorKeys ==
  {"BASE_PIN_COLOR_ACTIVE", "BASE_PIN_COLOR_DEFAULT", "BASE_PIN_COLOR_OWN",
   "BASE_PIN_RING_COLOR_ACTIVE", "BASE_PIN_STROKE_COLOR_OWN", "CLUSTER_COLOR",
   "CLUSTER_TEXT_COLOR", "ICON_COLOR_ACTIVE", "ICON_COLOR_DEFAULT"}

OffsetKeys ==
  {"ICON_OFFSET_X_ACTIVE", "ICON_OFFSET_X_DEFAULT", "ICON_OFFSET_Y_ACTIVE",
   "ICON_OFFSET_Y_DEFAULT"}

NumericKeys == OffsetKeys \cup {"COMPOSITE_SCALE", "OUTPUT_SCALE", "ICON_SCALE"}

Keys == ColorKeys \cup NumericKeys \cup {"MAP_PINS_BASE_URI"}

Absent == [t |-> "absent", s |-> ""]

Undefined == [t |-> "undefined", s |-> ""]

Str(s) == [t |-> "string", s |-> s]

\* { ...process.env, ...(options.env ?? {}) }: a key that options.env owns wins
MergeEnv(p, o) == [key \in Keys |-> IF o[key].t = "absent" THEN p[key] ELSE o[key]]

\* a faulty resolveEnvValue: the empty string is let through as a value
resolveEnvValueKeepEmpty(env, key) ==
  IF env[key].t # "string" THEN Undefined ELSE env[key]

\* resolveEnvValue: undefined for a missing, undefined or empty value
resolveEnvValue(env, key) ==
  IF env[key].t # "string" \/ env[key].s = "" THEN Undefined ELSE env[key]

\* the built-in default each option falls back to (the right side of its ??)
DefaultRaw(key) ==
  CASE key = "BASE_PIN_COLOR_ACTIVE" -> "#000"
    [] key = "BASE_PIN_COLOR_DEFAULT" -> "#FFF"
    [] key = "BASE_PIN_COLOR_OWN" -> "#FFF"
    [] key = "BASE_PIN_RING_COLOR_ACTIVE" -> "#FFF"
    [] key = "BASE_PIN_STROKE_COLOR_OWN" -> "#000"
    [] key = "COMPOSITE_SCALE" -> "0"
    [] key = "OUTPUT_SCALE" -> "1"
    [] key = "CLUSTER_COLOR" -> "#000"
    [] key = "CLUSTER_TEXT_COLOR" -> "#000"
    [] key = "ICON_COLOR_ACTIVE" -> "#FFF"
    [] key = "ICON_COLOR_DEFAULT" -> "#000"
    [] key \in OffsetKeys -> "0"
    [] key = "ICON_SCALE" -> "0"
    [] key = "MAP_PINS_BASE_URI" -> "pngWithSvg"

\* resolveEnvValue(env, KEY) ?? default, wrapped in Number(...) for numeric options
ResolveOption(env, key) ==
  LET v   == resolveEnvValue(env, key)
      raw == IF v.t = "string" THEN v.s ELSE DefaultRaw(key)
  IN  IF key \in NumericKeys THEN ToNumber(raw) ELSE raw

ResolveConfig(env) == [key \in Keys |-> ResolveOption(env, key)]

(***************************************************************************)
(* Strings: lower-casing, suffix tests, path.basename and localeCompare.   *)
(***************************************************************************)
UpperAlphabet == "ABCDEFGHIJKLMNOPQRSTUVWXYZ"

LowerAlphabet == "abcdefghijklmnopqrstuvwxyz"

LowerChar(c) ==
  IF \E i \in 1..Len(UpperAlphabet) : CharAt(UpperAlphabet, i) = c
  THEN CharAt(LowerAlphabet, CHOOSE i \in 1..Len(UpperAlphabet) : CharAt(UpperAlphabet, i) = c)
  ELSE c

RECURSIVE ToLowerCase(_)
ToLowerCase(s) ==
  IF Len(s) = 0 THEN ""
  ELSE LowerChar(CharAt(s, 1)) \o ToLowerCase(SubSeq(s, 2, Len(s)))

EndsWith(s, suffix) ==
  Len(s) >= Len(suffix) /\ SubSeq(s, Len(s) - Len(suffix) + 1, Len(s)) = suffix

\* path.basename(p, ext): the extension is dropped only on an exact match
Basename(name, ext) ==
  IF Len(name) > Len(ext) /\ EndsWith(name, ext)
  THEN SubSeq(name, 1, Len(name) - Len(ext))
  ELSE name

\* rank of a character in the collation: punctuation, then letters
CharRank(c) ==
  LET lc == LowerChar(c)
  IN  IF \E i \in 1..Len(LowerAlphabet) : CharAt(LowerAlphabet, i) = lc
      THEN 1 + (CHOOSE i \in 1..Len(LowerAlphabet) : CharAt(LowerAlphabet, i) = lc)
      ELSE 0

\* a.localeCompare(b) < 0: letters compared without case first, a shorter
\* prefix first, and on a tie lower case before upper case
LocaleLess(a, b) ==
  LET n  == IF Len(a) < Len(b) THEN Len(a) ELSE Len(b)
      diff  == {i \in 1..n : CharRank(CharAt(a, i)) # CharRank(CharAt(b, i))}
      cased == {i \in 1..n : CharAt(a, i) # CharAt(b, i)}
  IN  IF diff # {}
      THEN LET i == CHOOSE j \in diff : \A k \in diff : j <= k
           IN  CharRank(CharAt(a, i)) < CharRank(CharAt(b, i))
      ELSE IF Len(a) # Len(b) THEN Len(a) < Len(b)
      ELSE IF cased = {} THEN FALSE
      ELSE LET i == CHOOSE j \in cased : \A k \in cased : j <= k
           IN  CharAt(a, i) = LowerChar(CharAt(a, i))

\* insertion of one name into a sorted sequence
RECURSIVE InsertSorted(_, _)
InsertSorted(x, s) ==
  IF Len(s) = 0 THEN <<x>>
  ELSE IF LocaleLess(x, Head(s)) THEN <<x>> \o s
  ELSE <<Head(s)>> \o InsertSorted(x, Tail(s))

\* names.sort((a, b) => a.localeCompare(b))
RECURSIVE SortNames(_)
SortNames(s) ==
  IF Len(s) = 0 THEN <<>>
  ELSE InsertSorted(s[Len(s)], SortNames(SubSeq(s, 1, Len(s) - 1)))

\* MAP_PINS_BASE_URI.replace(/\/+$/, ""): every trailing slash is dropped
RECURSIVE StripTrailingSlashes(_)
StripTrailingSlashes(s) ==
  IF Len(s) > 0 /\ CharAt(s, Len(s)) = "/"
  THEN StripTrailingSlashes(SubSeq(s, 1, Len(s) - 1))
  ELSE s

(***************************************************************************)
(* Recolouring of SVG text: String.replace with a global, case-insensitive *)
(* regular expression made of a literal and optional \b assertions.  The   *)
(* replacement strings of the model hold no $, so they are taken as they   *)
(* are.                                                                    *)
(***************************************************************************)
\* \w of a regular expression: a letter, a digit or the underscore
IsWordChar(c) == CharRank(c) > 0 \/ DigitVal(c) >= 0 \/ c = "_"

\* \b at the gap before position p of text
Boundary(text, p) ==
  (p > 1 /\ IsWordChar(CharAt(text, p - 1))) # (p <= Len(text) /\ IsWordChar(CharAt(text, p)))

\* the pattern matches at position i: the literal, without regard to case,
\* with \b before it (bounds = "word") and after it (bounds = "word" or "end")
MatchesAt(text, i, literal, bounds) ==
  /\ i + Len(literal) - 1 <= Len(text)
  /\ \A k \in 1..Len(literal) :
       LowerChar(CharAt(text, i + k - 1)) = LowerChar(CharAt(literal, k))
  /\ bounds = "word" => Boundary(text, i)
  /\ bounds \in {"word", "end"} => Boundary(text, i + Len(literal))

\* text.replace(pattern, to) from position i on: matches are found left to
\* right, do not overlap, and what is put in is not scanned again
RECURSIVE ReplaceFrom(_, _, _, _, _)
ReplaceFrom(text, i, literal, to, bounds) ==
  IF i > Len(text) THEN ""
  ELSE IF MatchesAt(text, i, literal, bounds)
  THEN to \o ReplaceFrom(text, i + Len(literal), literal, to, bounds)
  ELSE CharAt(text, i) \o ReplaceFrom(text, i + 1, literal, to, bounds)

\* a faulty ColorPattern: every token is matched as a plain substring
ColorPatternPlain(from) == "none"

\* the pattern applyColorMap builds: \bfrom\b for a token made of letters
\* only, the escaped literal otherwise
ColorPattern(from) ==
  IF \A i \in 1..Len(from) : CharRank(CharAt(from, i)) > 0 THEN "word" ELSE "none"

\* applyColorMap: one replacement pass over the whole text for each entry of
\* the map, in the order of the entries; an empty from or to is skipped
RECURSIVE applyColorMap(_, _)
applyColorMap(svg, replacements) ==
  IF Len(replacements) = 0 THEN svg
  ELSE LET from == Head(replacements)[1]
           to   == Head(replacements)[2]
           next == IF from = "" \/ to = "" THEN svg
                   ELSE ReplaceFrom(svg, 1, from, to, ColorPattern(from))
       IN  applyColorMap(next, Tail(replacements))

\* a faulty BaseColorMap: the ring token of the active pin takes the active
\* colour
BaseColorMapNoRing(pin, c) ==
  CASE pin = "defaultPin" -> <<<<"#F7F5F0", c["BASE_PIN_COLOR_DEFAULT"]>>>>
    [] pin = "defaultPinActive" ->
         <<<<"#F7F5F0", c["BASE_PIN_COLOR_ACTIVE"]>>,
           <<"#000000", c["BASE_PIN_COLOR_ACTIVE"]>>,
           <<"#000", c["BASE_PIN_COLOR_ACTIVE"]>>,
           <<"black", c["BASE_PIN_COLOR_ACTIVE"]>>>>
    [] OTHER -> <<<<"#F7F5F0", c["BASE_PIN_COLOR_OWN"]>>,
                  <<"#141414", c["BASE_PIN_STROKE_COLOR_OWN"]>>>>

\* the colour map of a base pin, in the order of its entries; c holds the
\* resolved colours
BaseColorMap(pin, c) ==
  CASE pin = "defaultPin" -> <<<<"#F7F5F0", c["BASE_PIN_COLOR_DEFAULT"]>>>>
    [] pin = "defaultPinActive" ->
         <<<<"#F7F5F0", c["BASE_PIN_RING_COLOR_ACTIVE"]>>,
           <<"#000000", c["BASE_PIN_COLOR_ACTIVE"]>>,
           <<"#000", c["BASE_PIN_COLOR_ACTIVE"]>>,
           <<"black", c["BASE_PIN_COLOR_ACTIVE"]>>>>
    [] OTHER -> <<<<"#F7F5F0", c["BASE_PIN_COLOR_OWN"]>>,
                  <<"#141414", c["BASE_PIN_STROKE_COLOR_OWN"]>>>>

\* applyActiveColor: #000000\b, then #000\b, then currentColor
applyActiveColor(svg, color) ==
  ReplaceFrom(ReplaceFrom(ReplaceFrom(svg, 1, "#000000", color, "end"),
                          1, "#000", color, "end"),
              1, "currentColor", color, "none")

(***************************************************************************)
(* The file system and the inputs of one run of generatePins.              *)
(***************************************************************************)
VARIABLES
  procEnv,      \* process.env
  optEnv,       \* options.env
  baseDir,      \* the names of the files in the base-pin directory
  baseMeta,     \* intrinsic <<width, height>> of each base pin
  svgDir,       \* the entries of the icon directory, in enumeration order
  template,     \* the parsed content of the settings template
  outDirExists, \* the output directory has been created
  outFiles,     \* the files of the output directory: name -> content
  settingsFile, \* the content of the settings output file
  fsOps,        \* the kinds of file system operation performed so far
  pc,           \* the position of the run in generatePins
  err,          \* the message of the error the run failed with
  cfg,          \* the resolved options
  svgFiles,     \* the result of listSvgFiles
  svgNames,     \* the sorted, non-reserved icon names
  dims,         \* scaled base sizes, iconSize and iconRenderSize
  idx,          \* the index in svgFiles of the icon in process
  icon,         \* iconBlack and iconWhite of the icon in process
  rendered,     \* every renderIcon call made so far
  mapSettings,  \* the settings document in memory
  result,       \* the value generatePins returned, once it has returned
  recolor,      \* a call of applyColorMap or applyActiveColor on its own
  http,         \* a request to POST /preview or POST /generate and its handler
  peer,         \* a second run of generatePins, while the other one steps
  ui            \* the preview pane of the form page and its renderPreviews calls

inputs == <<procEnv, optEnv, baseDir, baseMeta, svgDir, template>>

disk == <<outDirExists, outFiles, settingsFile, fsOps>>

locals == <<cfg, svgFiles, svgNames, dims, idx, icon, rendered, mapSettings, result>>

\* what a step of generatePins leaves alone
apart == <<recolor, http, peer, ui>>

vars == <<inputs, disk, pc, err, locals, apart>>

BasePins == <<"defaultPin", "defaultPinActive", "ownLocationPin">>

ReservedNames == {BasePins[i] : i \in 1..Len(BasePins)}

BasePinFiles == {n \o ".svg" : n \in ReservedNames}

NoFile == [exists |-> FALSE]

NoFiles == [n \in {} |-> NoFile]

\* the file `name` of a directory `files` now holds `content`
WriteFile(files, name, content) ==
  [n \in DOMAIN files \cup {name} |-> IF n = name THEN content ELSE files[n]]

(***************************************************************************)
(* Pure steps of generatePins.                                             *)
(***************************************************************************)
\* a faulty ScalesError: the upper limit of ICON_SCALE is forgotten
ScalesErrorNoUpper(c) ==
  IF ~IsFinite(c["COMPOSITE_SCALE"]) \/ Leq(c["COMPOSITE_SCALE"], Int2Num(0))
  THEN "COMPOSITE_SCALE must be a positive number."
  ELSE IF ~IsFinite(c["ICON_SCALE"]) \/ Leq(c["ICON_SCALE"], Int2Num(0))
  THEN "ICON_SCALE must be a number between 0 and 1."
  ELSE ""

\* the two checks on the scales: the error thrown, or "" when both pass
ScalesError(c) ==
  IF ~IsFinite(c["COMPOSITE_SCALE"]) \/ Leq(c["COMPOSITE_SCALE"], Int2Num(0))
  THEN "COMPOSITE_SCALE must be a positive number."
  ELSE IF \/ ~IsFinite(c["ICON_SCALE"])
          \/ Leq(c["ICON_SCALE"], Int2Num(0))
          \/ Gt(c["ICON_SCALE"], Int2Num(1))
  THEN "ICON_SCALE must be a number between 0 and 1."
  ELSE ""

\* listSvgFiles: the entries that are files and end in .svg, whatever the case
IsSvgEntry(e) == e.isFile /\ EndsWith(ToLowerCase(e.name), ".svg")

ListSvgFiles(dir) ==
  LET kept == SelectSeq(dir, IsSvgEntry)
  IN  [i \in 1..Len(kept) |-> kept[i].name]

\* a faulty MissingBasePins: the own-location pin is forgotten, as in the legacy script
MissingBasePinsTwo(dir) == {"defaultPin.svg", "defaultPinActive.svg"} \ dir

\* the base pin files that fs.access and fs.readFile do not find
MissingBasePins(dir) == BasePinFiles \ dir

\* getBaseMeta: width and height must both be there and non-zero
MetaOk(m) == m[1] # 0 /\ m[2] # 0

\* a faulty IconRenderSize: the composition order of the legacy script,
\* round(round(min * s) * c * o)
IconRenderSizeLegacy(meta, c) ==
  MathRound(Mul(Mul(MathRound(Mul(MathMin(Int2Num(meta[1]), Int2Num(meta[2])),
                                  c["ICON_SCALE"])),
                    c["COMPOSITE_SCALE"]),
                c["OUTPUT_SCALE"]))

IconSize(meta, c) ==
  MathRound(Mul(Mul(MathMin(Int2Num(meta[1]), Int2Num(meta[2])), c["ICON_SCALE"]),
                c["OUTPUT_SCALE"]))

IconRenderSize(meta, c) == MathRound(Mul(IconSize(meta, c), c["COMPOSITE_SCALE"]))

ScaledSide(side, c) == MathRound(Mul(Int2Num(side), c["OUTPUT_SCALE"]))

\* the scaled sizes of the three base pins and the two icon sizes
ComputeDims(meta, c) ==
  [wD |-> ScaledSide(meta["defaultPin"][1], c),
   hD |-> ScaledSide(meta["defaultPin"][2], c),
   wA |-> ScaledSide(meta["defaultPinActive"][1], c),
   hA |-> ScaledSide(meta["defaultPinActive"][2], c),
   wO |-> ScaledSide(meta["ownLocationPin"][1], c),
   hO |-> ScaledSide(meta["ownLocationPin"][2], c),
   iconSize |-> IconSize(meta["defaultPin"], c),
   iconRenderSize |-> IconRenderSize(meta["defaultPin"], c)]

\* a faulty SizeError: the render size is checked against the longer side
SizeErrorMax(d) ==
  IF Leq(d.iconSize, Int2Num(0)) \/ Leq(d.iconRenderSize, Int2Num(0))
  THEN "ICON_SCALE, COMPOSITE_SCALE or OUTPUT_SCALE are too small; resulting icon size is 0."
  ELSE IF Gt(d.iconRenderSize, IF Lt(d.wD, d.hD) THEN d.hD ELSE d.wD)
  THEN "ICON_SCALE is too large; icon exceeds base pin size."
  ELSE ""

\* the two checks on the icon sizes: the error thrown, or "" when both pass
SizeError(d) ==
  IF Leq(d.iconSize, Int2Num(0)) \/ Leq(d.iconRenderSize, Int2Num(0))
  THEN "ICON_SCALE, COMPOSITE_SCALE or OUTPUT_SCALE are too small; resulting icon size is 0."
  ELSE IF Gt(d.iconRenderSize, MathMin(d.wD, d.hD))
  THEN "ICON_SCALE is too large; icon exceeds base pin size."
  ELSE ""

(***************************************************************************)
(* Output images.  A PNG is described by what was drawn into it.           *)
(***************************************************************************)
\* the text of the three base pins: a ring or body in #F7F5F0, and the fill
\* and stroke tokens of the pin
BaseSvg(pin) ==
  CASE pin = "defaultPin" -> "<svg fill=\"#F7F5F0\"/>"
    [] pin = "defaultPinActive" -> "<svg stroke=\"#F7F5F0\" fill=\"black\"/>"
    [] OTHER -> "<svg fill=\"#F7F5F0\" stroke=\"#141414\"/>"

\* the text of the icon files: bad.svg is not an SVG document
IconSvg(file) ==
  CASE file = "bad.svg" -> "PNG"
    [] file = "b.SVG" -> "<svg stroke=\"currentColor\"/>"
    [] OTHER -> "<svg fill=\"#000000\"/>"

\* sharp(buffer) can decode the text
IsSvg(text) == Len(text) >= 4 /\ SubSeq(text, 1, 4) = "<svg"

\* sharp(colored).resize(w, h).png(): the standalone raster of a base pin,
\* drawn from its recoloured text `svg`
BaseImage(pin, svg, w, h) ==
  [kind |-> "base", base |-> pin, svg |-> svg, w |-> w, h |-> h,
   icon |-> "", tint |-> "", size |-> 0]

\* renderIcon: the recoloured text `svg` of the icon file, rasterized into a
\* square of side `size` and trimmed to its artwork.  The artwork of b.SVG
\* fills the left half of its view box, that of every other icon all of it.
IconRend(file, tint, svg, size) ==
  [icon |-> file, tint |-> tint, svg |-> svg, size |-> size,
   width |-> IF file = "b.SVG" THEN (size + 1) \div 2 ELSE size,
   height |-> size]

\* a faulty Placement: the offset is not multiplied by the composite scale
PlacementUnscaled(side, iconSide, offset, scale) ==
  MathRound(Add(Mul(Add(MathRound(Mul(side, scale)), Int2Num(0 - iconSide)), Num(1, 2)),
                offset))

\* a faulty Placement: the corner of the icon is put at the centre
PlacementCorner(side, iconSide, offset, scale) ==
  MathRound(Add(Mul(MathRound(Mul(side, scale)), Num(1, 2)), Mul(offset, scale)))

\* compositePin: left from width, icon.width and offsetX (top likewise)
Placement(side, iconSide, offset, scale) ==
  MathRound(Add(Mul(Add(MathRound(Mul(side, scale)), Int2Num(0 - iconSide)), Num(1, 2)),
                Mul(offset, scale)))

\* compositePin draws into a canvas of round(width * scale) by
\* round(height * scale), which sharp accepts only as positive integers
CanvasOk(width, height, scale) ==
  /\ IsPosInt(MathRound(Mul(width, scale)))
  /\ IsPosInt(MathRound(Mul(height, scale)))
  /\ IsPosInt(width)
  /\ IsPosInt(height)

\* the image compositePin writes: `rend` placed at <<left, top>> over the
\* recoloured base pin, at width by height
CompositeImage(pin, rend, width, height, left, top) ==
  [kind |-> "composite", base |-> pin, w |-> IntOf(width), h |-> IntOf(height),
   icon |-> rend.icon, tint |-> rend.tint, size |-> rend.size,
   svg |-> rend.svg, iconWidth |-> rend.width, iconHeight |-> rend.height,
   left |-> IntOf(left), top |-> IntOf(top)]

(***************************************************************************)
(* The settings document.  An object is a sequence of entries in key       *)
(* order; assigning an existing key keeps its place.                       *)
(***************************************************************************)
HasKey(obj, key) == \E i \in 1..Len(obj) : obj[i].key = key

\* the key is an array index: the digits of an integer, without leading zeros
IsIndexKey(key) ==
  Len(key) > 0 /\ AllDigits(key) /\ (Len(key) = 1 \/ CharAt(key, 1) # "0")

\* obj[key] = {uri, color}: an object lists its array-index keys first, in
\* ascending numeric order, and then its other keys in order of creation
PutMarker(obj, key, uri, color) ==
  LET e == [key |-> key, uri |-> uri, color |-> color]
      before == SelectSeq(obj, LAMBDA x : IsIndexKey(x.key) /\
                                           DigitsValue(x.key) < DigitsValue(key))
  IN  IF HasKey(obj, key)
      THEN [i \in 1..Len(obj) |-> IF obj[i].key = key THEN e ELSE obj[i]]
      ELSE IF IsIndexKey(key)
      THEN before \o <<e>> \o SubSeq(obj, Len(before) + 1, Len(obj))
      ELSE Append(obj, e)

\* the object literal of the three base markers
BaseMarkers(c, baseUri) ==
  <<[key |-> "defaultPin", uri |-> baseUri \o "/defaultPin.png",
     color |-> c["BASE_PIN_COLOR_DEFAULT"]],
    [key |-> "defaultPinActive", uri |-> baseUri \o "/defaultPinActive.png",
     color |-> c["BASE_PIN_COLOR_ACTIVE"]],
    [key |-> "ownLocationPin", uri |-> baseUri \o "/ownLocationPin.png",
     color |-> c["BASE_PIN_COLOR_OWN"]]>>

\* the loop over svgNames that adds name and name + "Active"
RECURSIVE AddIconMarkers(_, _, _, _)
AddIconMarkers(obj, names, c, baseUri) ==
  IF Len(names) = 0 THEN obj
  ELSE LET name == Head(names)
           one  == PutMarker(obj, name, baseUri \o "/" \o name \o ".png",
                             c["BASE_PIN_COLOR_DEFAULT"])
           two  == PutMarker(one, name \o "Active",
                             baseUri \o "/" \o name \o "Active.png",
                             c["BASE_PIN_COLOR_ACTIVE"])
       IN  AddIconMarkers(two, Tail(names), c, baseUri)

BuildMarkerImages(c, names) ==
  LET baseUri == StripTrailingSlashes(c["MAP_PINS_BASE_URI"])
  IN  AddIconMarkers(BaseMarkers(c, baseUri), names, c, baseUri)

\* a faulty CanSetTextColor: a missing clusterCount is created on the way
CanSetTextColorShallow(doc) == doc.layerStyles.present

\* the template can take the assignment to layerStyles.clusterCount.textColor
CanSetTextColor(doc) == doc.layerStyles.present /\ doc.layerStyles.clusterCount.present

\* a faulty UpdateSettings: the fallback text colour takes the cluster colour
UpdateSettingsSwapped(doc, c, names) ==
  [doc EXCEPT
    !.markerImages = BuildMarkerImages(c, names),
    !.clusterSuperiorColor = c["CLUSTER_COLOR"],
    !.clusterSuperiorTextColor = c["CLUSTER_TEXT_COLOR"],
    !.clusterFallbackColor = c["CLUSTER_COLOR"],
    !.clusterFallbackTextColor = c["CLUSTER_COLOR"],
    !.layerStyles.clusterCount.textColor = c["CLUSTER_TEXT_COLOR"]]

\* a faulty UpdateSettings: layerStyles is built anew around the text colour
UpdateSettingsRebuilt(doc, c, names) ==
  [doc EXCEPT
    !.markerImages = BuildMarkerImages(c, names),
    !.clusterSuperiorColor = c["CLUSTER_COLOR"],
    !.clusterSuperiorTextColor = c["CLUSTER_TEXT_COLOR"],
    !.clusterFallbackColor = c["CLUSTER_COLOR"],
    !.clusterFallbackTextColor = c["CLUSTER_TEXT_COLOR"],
    !.layerStyles = [present |-> TRUE,
                     clusterCount |-> [present |-> TRUE,
                                       textColor |-> c["CLUSTER_TEXT_COLOR"]]]]

\* the template with markerImages replaced and the cluster fields overwritten
UpdateSettings(doc, c, names) ==
  [doc EXCEPT
    !.markerImages = BuildMarkerImages(c, names),
    !.clusterSuperiorColor = c["CLUSTER_COLOR"],
    !.clusterSuperiorTextColor = c["CLUSTER_TEXT_COLOR"],
    !.clusterFallbackColor = c["CLUSTER_COLOR"],
    !.clusterFallbackTextColor = c["CLUSTER_TEXT_COLOR"],
    !.layerStyles.clusterCount.textColor = c["CLUSTER_TEXT_COLOR"]]

\* basename and reserved-name filter, then the sort
SvgNames(files) ==
  LET names == [i \in 1..Len(files) |-> Basename(files[i], ".svg")]
  IN  SortNames(SelectSeq(names, LAMBDA n : n \notin ReservedNames))

(***************************************************************************)
(* The steps of generatePins, in program order.                            *)
(***************************************************************************)
Goto(to, message) == pc' = to /\ err' = message

\* the icon directory of the run has been removed (only a request handler
\* removes directories)
SvgDirGone == http.site # "none" /\ ~http.svg

\* the directory the settings output file goes to has been removed
SettingsDirGone == http.site # "none" /\ ~http.tmp /\ ~http.svg /\ ~outDirExists

\* the file is not, or no longer, in the icon directory
IconGone(file) == \A i \in 1..Len(svgDir) : svgDir[i].name # file

Fail(message) == Goto("failed", message)

\* options and environment are resolved and the two scales are validated
ResolveAndValidate ==
  /\ pc = "start"
  /\ cfg' = ResolveConfig(MergeEnv(procEnv, optEnv))
  /\ IF ScalesError(cfg') = "" THEN Goto("ensureDir", "") ELSE Fail(ScalesError(cfg'))
  /\ UNCHANGED <<apart, inputs, disk, svgFiles, svgNames, dims, idx, icon, rendered, mapSettings, result>>

\* await ensureDir(outputDir)
EnsureDir ==
  /\ pc = "ensureDir"
  /\ outDirExists' = TRUE
  /\ fsOps' = fsOps \cup {"mkdir"}
  /\ Goto("list", "")
  /\ UNCHANGED <<apart, inputs, outFiles, settingsFile, locals>>

\* await listSvgFiles(svgDir), and the check that it found something
ListIcons ==
  /\ pc = "list"
  /\ fsOps' = fsOps \cup {"readdir"}
  /\ svgFiles' = ListSvgFiles(svgDir)
  /\ IF SvgDirGone THEN Fail("ENOENT")
     ELSE IF Len(svgFiles') = 0
     THEN Fail("No SVG files found in svg folder.")
     ELSE Goto("access", "")
  /\ UNCHANGED <<apart, inputs, outDirExists, outFiles, settingsFile,
                 cfg, svgNames, dims, idx, icon, rendered, mapSettings, result>>

\* the three fs.access calls
AccessBasePins ==
  /\ pc = "access"
  /\ fsOps' = fsOps \cup {"access"}
  /\ IF MissingBasePins(baseDir) = {} THEN Goto("readBase", "") ELSE Fail("ENOENT")
  /\ UNCHANGED <<apart, inputs, outDirExists, outFiles, settingsFile, locals>>

\* the base pins are read, recoloured and measured
ReadBasePins ==
  /\ pc = "readBase"
  /\ fsOps' = fsOps \cup {"read"}
  /\ IF MissingBasePins(baseDir) # {} THEN Fail("ENOENT")
     ELSE IF \E i \in 1..Len(BasePins) : ~MetaOk(baseMeta[BasePins[i]])
     THEN Fail("Base pin metadata is missing width/height.")
     ELSE Goto("sizes", "")
  /\ UNCHANGED <<apart, inputs, outDirExists, outFiles, settingsFile, locals>>

\* the scaled sizes and the icon sizes are computed and validated
ValidateSizes ==
  /\ pc = "sizes"
  /\ dims' = ComputeDims(baseMeta, cfg)
  /\ IF SizeError(dims') = "" THEN Goto("baseDefault", "") ELSE Fail(SizeError(dims'))
  /\ UNCHANGED <<apart, inputs, disk, cfg, svgFiles, svgNames, idx, icon, rendered, mapSettings, result>>

\* sharp(colored).resize(w, h).png().toFile(out) for one base pin
WriteBase(at, pin, w, h, next) ==
  /\ pc = at
  /\ IF ~(IsPosInt(w) /\ IsPosInt(h))
     THEN /\ Fail("Expected positive integer for width or height")
          /\ UNCHANGED <<outFiles, fsOps>>
     ELSE IF ~outDirExists
     THEN /\ Fail("ENOENT")
          /\ UNCHANGED <<outFiles, fsOps>>
     ELSE /\ outFiles' = WriteFile(outFiles, pin \o ".png", BaseImage(pin, applyColorMap(BaseSvg(pin), BaseColorMap(pin, cfg)),
                                             IntOf(w), IntOf(h)))
          /\ fsOps' = fsOps \cup {"write"}
          /\ Goto(next, "")
  /\ UNCHANGED <<apart, inputs, outDirExists, settingsFile, locals>>

WriteBaseDefault == WriteBase("baseDefault", "defaultPin", dims.wD, dims.hD, "baseActive")

WriteBaseActive == WriteBase("baseActive", "defaultPinActive", dims.wA, dims.hA, "baseOwn")

WriteBaseOwn == WriteBase("baseOwn", "ownLocationPin", dims.wO, dims.hO, "names")

\* svgNames is derived from svgFiles
CollectNames ==
  /\ pc = "names"
  /\ svgNames' = SvgNames(svgFiles)
  /\ Goto("render", "")
  /\ UNCHANGED <<apart, inputs, disk, cfg, svgFiles, dims, idx, icon, rendered, mapSettings, result>>

\* a faulty RenderFailed: the icon that cannot be rendered is skipped
RenderSkipped(message) ==
  /\ idx' = idx + 1
  /\ Goto(IF idx < Len(svgFiles) THEN "render" ELSE "settings", "")
  /\ UNCHANGED <<icon, rendered>>

\* renderIcon rejects: nothing catches it, and generatePins rejects with it
RenderFailed(message) ==
  /\ Fail(message)
  /\ UNCHANGED <<icon, rendered, idx>>

\* a faulty AfterIcon: the loop is left after its first icon
AfterIconOnce(i, n) == "settings"

\* for (const svgPath of svgFiles): the body runs again while icons are left
AfterIcon(i, n) == IF i < n THEN "render" ELSE "settings"

\* the head of the loop body: the icon is read, recoloured twice and rendered twice
RenderIcons ==
  /\ pc = "render"
  /\ idx <= Len(svgFiles)
  /\ fsOps' = fsOps \cup {"read"}
  /\ IF IconGone(svgFiles[idx])
     THEN RenderFailed("ENOENT")
     ELSE IF ~IsPosInt(dims.iconRenderSize)
     THEN RenderFailed("Expected positive integer for width or height")
     ELSE IF ~IsSvg(IconSvg(svgFiles[idx]))
     THEN RenderFailed("Input buffer contains unsupported image format")
     ELSE LET size  == IntOf(dims.iconRenderSize)
              black == IconRend(svgFiles[idx], cfg["ICON_COLOR_DEFAULT"],
                                applyActiveColor(IconSvg(svgFiles[idx]), cfg["ICON_COLOR_DEFAULT"]),
                                size)
              white == IconRend(svgFiles[idx], cfg["ICON_COLOR_ACTIVE"],
                                applyActiveColor(IconSvg(svgFiles[idx]), cfg["ICON_COLOR_ACTIVE"]),
                                size)
          IN  /\ icon' = [black |-> black, white |-> white]
              /\ rendered' = rendered \cup {black, white}
              /\ idx' = idx
              /\ Goto("compositeDefault", "")
  /\ UNCHANGED <<apart, inputs, outDirExists, outFiles, settingsFile,
                 cfg, svgFiles, svgNames, dims, mapSettings, result>>

\* compositePin(base, rend, out, width, height, offsetX, offsetY, scale),
\* then on to `next`
CompositePin(at, pin, rend, suffix, width, height, offsetX, offsetY, next, idxNext) ==
  LET scale == cfg["COMPOSITE_SCALE"]
      left  == Placement(width, rend.width, offsetX, scale)
      top   == Placement(height, rend.height, offsetY, scale)
  IN
  /\ pc = at
  /\ IF ~CanvasOk(width, height, scale)
     THEN /\ Fail("Expected positive integer for width or height")
          /\ UNCHANGED <<outFiles, fsOps, idx>>
     ELSE IF ~IsFinite(left) \/ ~IsFinite(top)
     THEN /\ Fail("Expected integer for left or top")
          /\ UNCHANGED <<outFiles, fsOps, idx>>
     ELSE IF ~outDirExists
     THEN /\ Fail("ENOENT")
          /\ UNCHANGED <<outFiles, fsOps, idx>>
     ELSE /\ outFiles' = WriteFile(outFiles, Basename(svgFiles[idx], ".svg") \o suffix,
                                   CompositeImage(pin, rend, width, height, left, top))
          /\ fsOps' = fsOps \cup {"write"}
          /\ idx' = idxNext
          /\ Goto(next, "")
  /\ UNCHANGED <<apart, inputs, outDirExists, settingsFile,
                 cfg, svgFiles, svgNames, dims, icon, rendered, mapSettings, result>>

CompositeDefault ==
  CompositePin("compositeDefault", "defaultPin", icon.black, ".png",
               dims.wD, dims.hD,
               Mul(cfg["ICON_OFFSET_X_DEFAULT"], cfg["OUTPUT_SCALE"]),
               Mul(cfg["ICON_OFFSET_Y_DEFAULT"], cfg["OUTPUT_SCALE"]),
               "compositeActive", idx)

CompositeActive ==
  CompositePin("compositeActive", "defaultPinActive", icon.white, "Active.png",
               dims.wA, dims.hA,
               Mul(cfg["ICON_OFFSET_X_ACTIVE"], cfg["OUTPUT_SCALE"]),
               Mul(cfg["ICON_OFFSET_Y_ACTIVE"], cfg["OUTPUT_SCALE"]),
               AfterIcon(idx, Len(svgFiles)), idx + 1)

\* the template is read and parsed, and the document is updated in memory
BuildSettings ==
  /\ pc = "settings"
  /\ fsOps' = fsOps \cup {"read"}
  /\ IF CanSetTextColor(template)
     THEN /\ mapSettings' = UpdateSettings(template, cfg, svgNames)
          /\ Goto("writeSettings", "")
     ELSE /\ Fail("TypeError: cannot set properties of undefined")
          /\ UNCHANGED mapSettings
  /\ UNCHANGED <<apart, inputs, outDirExists, outFiles, settingsFile,
                 cfg, svgFiles, svgNames, dims, idx, icon, rendered, result>>

\* await fs.writeFile(mapSettingsOutput, ...)
WriteSettings ==
  /\ pc = "writeSettings"
  /\ fsOps' = fsOps \cup {"write"}
  /\ IF SettingsDirGone
     THEN Fail("ENOENT") /\ UNCHANGED settingsFile
     ELSE settingsFile' = mapSettings /\ Goto("return", "")
  /\ UNCHANGED <<apart, inputs, outDirExists, outFiles, locals>>

\* return { outputDir, mapSettingsOutput }
Return ==
  /\ pc = "return"
  /\ result' = [outputDir |-> "pngWithSvg", mapSettingsOutput |-> "mapSettings.json"]
  /\ Goto("done", "")
  /\ UNCHANGED <<apart, inputs, disk, cfg, svgFiles, svgNames, dims, idx, icon, rendered, mapSettings>>

Next ==
  \/ ResolveAndValidate
  \/ EnsureDir
  \/ ListIcons
  \/ AccessBasePins
  \/ ReadBasePins
  \/ ValidateSizes
  \/ WriteBaseDefault
  \/ WriteBaseActive
  \/ WriteBaseOwn
  \/ CollectNames
  \/ RenderIcons
  \/ CompositeDefault
  \/ CompositeActive
  \/ BuildSettings
  \/ WriteSettings
  \/ Return

(***************************************************************************)
(* The inputs the runs are started with.                                   *)
(***************************************************************************)
NoEnv == [key \in Keys |-> Absent]

\* a .env file that sets every option
DotEnvValue(key) ==
  CASE key = "BASE_PIN_COLOR_ACTIVE" -> "#101010"
    [] key = "BASE_PIN_COLOR_DEFAULT" -> "#E0E0E0"
    [] key = "BASE_PIN_COLOR_OWN" -> "#30A0F0"
    [] key = "BASE_PIN_RING_COLOR_ACTIVE" -> "#F0F0F0"
    [] key = "BASE_PIN_STROKE_COLOR_OWN" -> "#202020"
    [] key = "COMPOSITE_SCALE" -> "2"
    [] key = "OUTPUT_SCALE" -> "1"
    [] key = "CLUSTER_COLOR" -> "#404040"
    [] key = "CLUSTER_TEXT_COLOR" -> "#FAFAFA"
    [] key = "ICON_COLOR_ACTIVE" -> "#EEEEEE"
    [] key = "ICON_COLOR_DEFAULT" -> "#111111"
    [] key = "ICON_OFFSET_X_DEFAULT" -> "2"
    [] key \in OffsetKeys -> "1"
    [] key = "ICON_SCALE" -> "0.5"
    [] key = "MAP_PINS_BASE_URI" -> "assets/"

DotEnv == [key \in Keys |-> Str(DotEnvValue(key))]

\* the values a filled-in form posts for the colours, the offsets and the URI
FormValue(key) ==
  CASE key = "BASE_PIN_COLOR_ACTIVE" -> "#AA0000"
    [] key = "BASE_PIN_COLOR_DEFAULT" -> "#00AA00"
    [] key = "BASE_PIN_COLOR_OWN" -> "#0000AA"
    [] key = "BASE_PIN_RING_COLOR_ACTIVE" -> "#AAAA00"
    [] key = "BASE_PIN_STROKE_COLOR_OWN" -> "#00AAAA"
    [] key = "CLUSTER_COLOR" -> "#AA00AA"
    [] key = "CLUSTER_TEXT_COLOR" -> "#123456"
    [] key = "ICON_COLOR_ACTIVE" -> "#FEDCBA"
    [] key = "ICON_COLOR_DEFAULT" -> "#ABCDEF"
    [] key = "ICON_OFFSET_X_DEFAULT" -> "1"
    [] key = "ICON_OFFSET_X_ACTIVE" -> "-1"
    [] key = "ICON_OFFSET_Y_ACTIVE" -> "0.5"
    [] key \in OffsetKeys -> "-1.5"
    [] key = "MAP_PINS_BASE_URI" -> "cdn/pins//"
    [] OTHER -> ""

\* an options.env with the three scales as given and every other option
\* absent, undefined, empty or filled in, according to `mode`
FormEnv(iconScale, compositeScale, outputScale, mode) ==
  [key \in Keys |->
    CASE key = "ICON_SCALE" -> iconScale
      [] key = "COMPOSITE_SCALE" -> compositeScale
      [] key = "OUTPUT_SCALE" -> outputScale
      [] OTHER -> CASE mode = "absent" -> Absent
                    [] mode = "undefined" -> Undefined
                    [] mode = "empty" -> Str("")
                    [] OTHER -> Str(FormValue(key))]

Modes == {"absent", "undefined", "empty", "filled"}

IconScaleInputs == {Absent, Str("0.5"), Str("1"), Str("1.5"), Str("abc")}

CompositeScaleInputs == {Absent, Str(""), Str("0.5"), Str("1.5"), Str("2"), Str("Infinity")}

OutputScaleInputs == {Absent, Str("1.5"), Str("2"), Str("abc")}

FormEnvs(modes) ==
  {FormEnv(i, c, o, m) : i \in IconScaleInputs, c \in CompositeScaleInputs,
                         o \in OutputScaleInputs, m \in modes}

GoodForm == FormEnv(Str("0.5"), Str("2"), Str("2"), "filled")

Sides == 1..MaxBaseSide

Meta(d, a) == [defaultPin |-> d, defaultPinActive |-> a, ownLocationPin |-> d]

SquareMeta == Meta(<<MaxBaseSide, MaxBaseSide>>, <<MaxBaseSide, MaxBaseSide>>)

Metas ==
  UNION {{Meta(<<w, h>>, <<w, h>>), Meta(<<w, h>>, <<1, 1>>)} : w \in Sides, h \in Sides}

Entry(name, isFile) == [name |-> name, isFile |-> isFile]

Entries ==
  {Entry("a.svg", TRUE), Entry("aActive.svg", TRUE), Entry("defaultPin.svg", TRUE),
   Entry("b.SVG", TRUE), Entry("notes.txt", TRUE), Entry("old.svg", FALSE)}

\* a directory lists each of its entries once, in any order
Listings ==
  UNION {{s \in [1..n -> Entries] : \A i, j \in 1..n : i # j => s[i] # s[j]} :
         n \in 0..MaxIcons}

ClusterCount(present) == [present |-> present, textColor |-> "#old", textSize |-> "12"]

LayerStyles(present, cc) == [present |-> present, clusterCount |-> cc, symbolSize |-> "1"]

Template(ls) ==
  [markerImages |-> <<[key |-> "stale", uri |-> "old/stale.png", color |-> "#old"],
                      [key |-> "a", uri |-> "old/a.png", color |-> "#old"]>>,
   clusterSuperiorColor |-> "#old",
   clusterSuperiorTextColor |-> "#old",
   clusterFallbackColor |-> "#old",
   clusterFallbackTextColor |-> "#old",
   layerStyles |-> ls,
   mapStyle |-> "streets"]

TemplateFull == Template(LayerStyles(TRUE, ClusterCount(TRUE)))

Templates ==
  {TemplateFull,
   Template(LayerStyles(TRUE, ClusterCount(FALSE))),
   Template(LayerStyles(FALSE, ClusterCount(FALSE)))}

Input(p, o, b, m, s, tpl) ==
  [procEnv |-> p, optEnv |-> o, baseDir |-> b, baseMeta |-> m, svgDir |-> s,
   template |-> tpl, settings |-> NoFile]

\* runs that vary the scales and the base pin sizes
SizeRuns ==
  {Input(NoEnv, o, BasePinFiles, m, <<Entry("a.svg", TRUE)>>, TemplateFull) :
     o \in FormEnvs({"filled"}), m \in Metas}

\* runs that vary the two layers of the environment
LayerRuns ==
  {Input(p, o, BasePinFiles, SquareMeta, <<Entry("a.svg", TRUE)>>, TemplateFull) :
     p \in {NoEnv, DotEnv}, o \in FormEnvs(Modes)}

\* runs that vary the icon directory
DirRuns ==
  {Input(e[1], e[2], BasePinFiles, SquareMeta, s, TemplateFull) :
     e \in {<<NoEnv, GoodForm>>, <<DotEnv, NoEnv>>}, s \in Listings}

\* runs that vary the base-pin directory, the base metadata and the template
AssetRuns ==
  {Input(e[1], e[2], b, m, <<Entry("b.SVG", TRUE), Entry("a.svg", TRUE)>>, tpl) :
     e \in {<<NoEnv, GoodForm>>, <<DotEnv, NoEnv>>},
     b \in SUBSET BasePinFiles,
     m \in {SquareMeta, Meta(<<MaxBaseSide, MaxBaseSide>>, <<0, 0>>)},
     tpl \in Templates}

\* the settings output file an earlier run has left
OldSettings == [TemplateFull EXCEPT !.mapStyle = "previous"]

\* runs that vary the template and find the settings output file of an
\* earlier run
TemplateRuns ==
  {[Input(NoEnv, GoodForm, BasePinFiles, SquareMeta, s, tpl) EXCEPT !.settings = OldSettings] :
     s \in {<<Entry("a.svg", TRUE)>>, <<Entry("7.svg", TRUE), Entry("b.SVG", TRUE)>>},
     tpl \in Templates}

\* runs over icon files that cannot be rendered or are named by a number
IconRuns ==
  LET files == {Entry("a.svg", TRUE), Entry("bad.svg", TRUE), Entry("7.svg", TRUE)}
  IN  {Input(NoEnv, GoodForm, BasePinFiles, SquareMeta, s, TemplateFull) :
         s \in UNION {{q \in [1..n -> files] : \A i, j \in 1..n : i # j => q[i] # q[j]} :
                      n \in 1..MaxIcons}}

\* runs that vary one icon offset or the output scale
OffsetRuns ==
  {Input(NoEnv, [GoodForm EXCEPT ![k] = Str(v)], BasePinFiles, SquareMeta,
         <<Entry("a.svg", TRUE), Entry("b.SVG", TRUE)>>, TemplateFull) :
     k \in OffsetKeys \cup {"OUTPUT_SCALE"}, v \in {"abc", "Infinity", "1", "10"}}

\* runs with every offset at its default of 0, over an icon that is trimmed
\* to less than its render size
CentredRuns ==
  {Input(NoEnv, FormEnv(i, c, o, "absent"), BasePinFiles, Meta(<<w, h>>, <<w, h>>),
         <<Entry("b.SVG", TRUE)>>, TemplateFull) :
     i \in {Str("0.5"), Str("1")}, c \in {Absent, Str("0.5"), Str("1.5")},
     o \in {Absent, Str("1.5")}, w \in Sides, h \in Sides}

\* runs over an active base pin one pixel smaller than the default one, with
\* an icon that fits both, in either enumeration order
SmallActiveRuns ==
  {Input(NoEnv, FormEnv(Str("0.5"), Str("0.5"), Str("2"), "absent"), BasePinFiles,
         Meta(<<MaxBaseSide, MaxBaseSide>>, <<MaxBaseSide - 1, MaxBaseSide - 1>>),
         s, TemplateFull) :
     s \in {<<Entry("a.svg", TRUE), Entry("aActive.svg", TRUE)>>,
            <<Entry("aActive.svg", TRUE), Entry("a.svg", TRUE)>>}}

Inputs == SizeRuns \cup LayerRuns \cup DirRuns \cup AssetRuns \cup TemplateRuns \cup OffsetRuns
          \cup IconRuns \cup CentredRuns \cup SmallActiveRuns

\* the state before generatePins is called with one of the inputs `ins`
Fresh(ins) ==
  /\ \E in \in ins :
       /\ procEnv = in.procEnv
       /\ optEnv = in.optEnv
       /\ baseDir = in.baseDir
       /\ baseMeta = in.baseMeta
       /\ svgDir = in.svgDir
       /\ template = in.template
       /\ settingsFile = in.settings
  /\ outDirExists = FALSE
  /\ outFiles = NoFiles
  /\ fsOps = {}
  /\ pc = "start"
  /\ err = ""
  /\ cfg = <<>>
  /\ svgFiles = <<>>
  /\ svgNames = <<>>
  /\ dims = <<>>
  /\ idx = 1
  /\ icon = <<>>
  /\ rendered = {}
  /\ mapSettings = NoFile
  /\ result = NoFile

Init ==
  /\ Fresh(Inputs)
  /\ recolor = [site |-> "none"] /\ http = [site |-> "none"] /\ peer = [held |-> FALSE]
  /\ ui = [site |-> "none"]

Spec == Init /\ [][Next]_vars

(***************************************************************************)
(* The recolouring functions on their own: a call is drawn from a bounded  *)
(* set of SVG texts and colour maps, and the one step applies the function.*)
(***************************************************************************)
RECURSIVE Join(_)
Join(words) ==
  IF Len(words) = 0 THEN ""
  ELSE IF Len(words) = 1 THEN words[1]
  ELSE words[1] \o " " \o Join(Tail(words))

Texts(vocabulary) ==
  {Join(ws) : ws \in UNION {[1..n -> vocabulary] : n \in 1..MaxWords}}

\* calls of applyColorMap with a token made of letters, calls with the map
\* of the active base pin for several ring and active colours, and calls of
\* applyActiveColor
RecolorCalls ==
  LET blackWords == {"black", "BLACK", "blackish", "unblack", "black_1",
                     "fill=\"Black\"", "a-black", "#000000"}
      pinWords   == {"#F7F5F0", "#f7f5f0", "#000000", "#000", "black",
                     "fill=\"Black\"", "white"}
      iconWords  == {"#000000", "#000", "currentColor", "#0000FF", "white"}
      colors     == {<<"#AAAA00", "#AA0000">>, <<"#000", "#AA0000">>,
                     <<"#AAAA00", "#000000">>, <<"black", "#000">>,
                     <<"#FFFFFF", "#000">>}
  IN  {[site |-> "applyColorMap", svg |-> s, map |-> <<m>>] :
         s \in Texts(blackWords), m \in {<<"black", "#FF0000">>, <<"BLACK", "navy">>}}
      \cup
      {[site |-> "activeBase", svg |-> s, ring |-> c[1], active |-> c[2],
        map |-> BaseColorMap("defaultPinActive",
                             [BASE_PIN_RING_COLOR_ACTIVE |-> c[1],
                              BASE_PIN_COLOR_ACTIVE |-> c[2]])] :
         s \in Texts(pinWords), c \in colors}
      \cup
      {[site |-> "applyActiveColor", svg |-> s, color |-> c] :
         s \in Texts(iconWords), c \in {"#FEDCBA", "#000"}}

InitRecolor ==
  /\ Fresh({Input(NoEnv, GoodForm, BasePinFiles, SquareMeta, <<>>, TemplateFull)})
  /\ recolor \in RecolorCalls
  /\ http = [site |-> "none"] /\ peer = [held |-> FALSE] /\ ui = [site |-> "none"]

CallApplyColorMap ==
  /\ recolor.site \in {"applyColorMap", "activeBase"}
  /\ "out" \notin DOMAIN recolor
  /\ recolor' = [x \in DOMAIN recolor \cup {"out"} |->
                   IF x = "out" THEN applyColorMap(recolor.svg, recolor.map)
                   ELSE recolor[x]]
  /\ UNCHANGED <<inputs, disk, pc, err, locals, http, peer, ui>>

CallApplyActiveColor ==
  /\ recolor.site = "applyActiveColor"
  /\ "out" \notin DOMAIN recolor
  /\ recolor' = [x \in DOMAIN recolor \cup {"out"} |->
                   IF x = "out" THEN applyActiveColor(recolor.svg, recolor.color)
                   ELSE recolor[x]]
  /\ UNCHANGED <<inputs, disk, pc, err, locals, http, peer, ui>>

NextRecolor == CallApplyColorMap \/ CallApplyActiveColor

SpecRecolor == InitRecolor /\ [][NextRecolor]_vars

(***************************************************************************)
(* The handlers of POST /preview and POST /generate.  A request carries    *)
(* its uploaded files and its form fields; the handler makes a temporary   *)
(* directory, writes the uploads into it and runs generatePins on it, so   *)
(* the icon directory, the output directory and the settings file of the   *)
(* run are the content of that temporary directory.                        *)
(***************************************************************************)
\* the uploaded file names of a request: upload.single hands over at most
\* one file, upload.array any number
Uploads(site) ==
  {<<>>, <<"a.svg">>, <<"bad.svg">>} \cup
  (IF site = "generate" THEN {<<"a.svg", "b.SVG">>} ELSE {})

Requests ==
  UNION {{[site |-> r, at |-> "start", files |-> f, made |-> FALSE, tmp |-> FALSE,
           svg |-> FALSE, listening |-> FALSE, cleaned |-> FALSE, rm |-> "idle",
           rmCount |-> 0, status |-> 0, res |-> "open"] : f \in Uploads(r)} :
         r \in {"preview", "generate"}}

\* const cleanup = async () => { if (cleaned) return; cleaned = true;
\* await fs.rm(tempRoot, ...) }: the removal is under way when it returns
cleanup(h) ==
  IF h.cleaned THEN h
  ELSE [h EXCEPT !.cleaned = TRUE, !.rm = "pending", !.rmCount = @ + 1]

\* the response is sent with `status`; on an open connection it finishes,
\* and the "finish" listener, if there is one, runs
Send(h, status) ==
  IF h.res # "open" THEN h
  ELSE LET sent == [h EXCEPT !.status = status, !.res = "finished"]
       IN  IF h.listening THEN cleanup(sent) ELSE sent

\* a faulty AfterTry: no handler has a finally block
AfterTryNoFinally(h) == [h EXCEPT !.at = "done"]

\* the end of try/catch: the handler of /preview awaits cleanup() in its
\* finally block, the handler of /generate has none and is done
AfterTry(h) ==
  IF h.site = "preview" THEN [cleanup(h) EXCEPT !.at = "cleanup"]
  ELSE [h EXCEPT !.at = "done"]

\* a step of the handler that touches no file of the run
HandlerStep(h) ==
  /\ http' = h
  /\ UNCHANGED <<inputs, disk, pc, err, locals, recolor, peer, ui>>

\* if (!file) / if (!files || files.length === 0): 400
NoUpload ==
  /\ http.site # "none" /\ http.at = "start" /\ Len(http.files) = 0
  /\ HandlerStep([Send(http, 400) EXCEPT !.at = "done"])

\* mkdtemp, mkdir(svgDir), and for /generate res.on("finish") and
\* res.on("close")
MakeTempDirs ==
  /\ http.site # "none" /\ http.at = "start" /\ Len(http.files) > 0
  /\ HandlerStep([http EXCEPT !.at = "write", !.made = TRUE, !.tmp = TRUE, !.svg = TRUE,
                              !.listening = (http.site = "generate")])

\* the uploads are written into the icon directory, and generatePins is called
WriteUploads ==
  /\ http.site # "none" /\ http.at = "write"
  /\ IF http.svg
     THEN /\ svgDir' = [i \in 1..Len(http.files) |-> Entry(http.files[i], TRUE)]
          /\ http' = [http EXCEPT !.at = "generate"]
     ELSE /\ http' = [http EXCEPT !.at = "catch"]
          /\ UNCHANGED svgDir
  /\ UNCHANGED <<procEnv, optEnv, baseDir, baseMeta, template, disk, pc, err, locals, recolor, peer, ui>>

\* await generatePins({ svgDir, outputDir, mapSettingsOutput, env: req.body })
GeneratePins == http.site # "none" /\ http.at = "generate" /\ Next

\* generatePins has returned or thrown
AfterGeneratePins ==
  /\ http.site # "none" /\ http.at = "generate" /\ pc \in {"done", "failed"}
  /\ HandlerStep(IF pc = "failed" THEN [http EXCEPT !.at = "catch"]
                 ELSE IF http.site = "preview" THEN [http EXCEPT !.at = "read"]
                 ELSE [http EXCEPT !.at = "stream",
                                   !.status = IF http.res = "open" THEN 200 ELSE @])

\* /preview: the two PNGs are read and sent, unless a read throws
ReadPngs ==
  /\ http.site = "preview" /\ http.at = "read"
  /\ \E readable \in BOOLEAN :
       LET name == Basename(http.files[1], ".svg")
       IN  IF readable /\ {name \o ".png", name \o "Active.png"} \subseteq DOMAIN outFiles
           THEN HandlerStep(AfterTry(Send(http, 200)))
           ELSE HandlerStep([http EXCEPT !.at = "catch"])

\* catch (err): 500, for /generate only if (!res.headersSent)
Catch ==
  /\ http.site # "none" /\ http.at = "catch"
  /\ HandlerStep(AfterTry(Send(http, 500)))

\* /generate: archive.finalize() has resolved and the archive is sent
ArchiveEnd ==
  /\ http.site = "generate" /\ http.at = "stream"
  /\ HandlerStep([Send(http, 200) EXCEPT !.at = "done"])

\* the client goes away: the "close" listener of /generate runs
ClientCloses ==
  /\ http.site = "generate" /\ http.listening /\ http.res = "open"
  /\ http.at \in {"write", "generate", "stream", "catch"}
  /\ HandlerStep(cleanup([http EXCEPT !.res = "closed"]))

\* fs.rm(tempRoot, { recursive: true, force: true }) completes, and the
\* handler that awaits it goes on
RmCompletes ==
  /\ http.site # "none" /\ http.rm = "pending"
  /\ http' = [http EXCEPT !.rm = "done", !.tmp = FALSE, !.svg = FALSE,
                          !.at = IF @ = "cleanup" THEN "done" ELSE @]
  /\ svgDir' = <<>>
  /\ outDirExists' = FALSE
  /\ outFiles' = NoFiles
  /\ settingsFile' = NoFile
  /\ UNCHANGED <<procEnv, optEnv, baseDir, baseMeta, template, fsOps, pc, err, locals, recolor, peer, ui>>

\* a request with its form fields in req.body, before the handler runs
InitServer ==
  /\ Fresh({Input(NoEnv, b, BasePinFiles, SquareMeta, <<>>, TemplateFull) :
              b \in {GoodForm, [GoodForm EXCEPT !["ICON_SCALE"] = Str("abc")]}})
  /\ http \in Requests
  /\ recolor = [site |-> "none"] /\ peer = [held |-> FALSE] /\ ui = [site |-> "none"]

NextServer ==
  \/ NoUpload
  \/ MakeTempDirs
  \/ WriteUploads
  \/ GeneratePins
  \/ AfterGeneratePins
  \/ ReadPngs
  \/ Catch
  \/ ArchiveEnd
  \/ ClientCloses
  \/ RmCompletes

SpecServer == InitServer /\ [][NextServer]_vars

(***************************************************************************)
(* The preview pane of the form page.  Every input event (debounced) and   *)
(* the page load call renderPreviews; a call runs until its next await, so *)
(* a step is the part of a call between two awaits.  calls[k] is the call  *)
(* that took requestId k.                                                  *)
(***************************************************************************)
MaxCalls == 3

MaxFiles == 2

\* a faulty IsCurrent: a call never sees that a later one has started
IsCurrentAlways(requestId) == TRUE

\* requestId === previewRequestId
IsCurrent(requestId) == requestId = ui.previewRequestId

\* call k returns without touching the page; nothing of its locals is left
Returns(k) == [ui EXCEPT !.calls[k] = [files |-> 0, i |-> 0, at |-> "returned"]]

\* the end of the loop body of call k: on to the fetch of the next file, or
\* past the loop, where the grid is replaced by the fragment of the call, a
\* card or two for each file, if the call is still current
NextFile(k) ==
  LET call == ui.calls[k]
  IN  IF call.i < call.files
      THEN [ui EXCEPT !.calls[k] = [@ EXCEPT !.i = @ + 1, !.at = "fetch"]]
      ELSE IF IsCurrent(k)
      THEN [ui EXCEPT !.calls[k] = [files |-> 0, i |-> 0, at |-> "committed"],
                      !.grid = [by |-> k, files |-> call.files],
                      !.loading = FALSE]
      ELSE Returns(k)

\* catch (err): call k returns if it is superseded, else it marks the card of
\* its file as failed and goes on
Caught(k) == IF IsCurrent(k) THEN NextFile(k) ELSE Returns(k)

PageStep(u) ==
  /\ ui' = u
  /\ UNCHANGED <<inputs, disk, pc, err, locals, recolor, http, peer>>

\* renderPreviews is called with `files` files chosen, up to its first fetch
RenderPreviews ==
  /\ ui.site = "page" /\ ui.previewRequestId < MaxCalls
  /\ \E files \in 0..MaxFiles :
       LET requestId == ui.previewRequestId + 1
           call      == [files |-> files, i |-> 1, at |-> "fetch"]
       IN  PageStep(
             IF files = 0
             THEN [ui EXCEPT !.previewRequestId = requestId,
                             !.calls = Append(@, [files |-> 0, i |-> 0, at |-> "committed"]),
                             !.grid = [by |-> requestId, files |-> 0],
                             !.loading = FALSE]
             ELSE [ui EXCEPT !.previewRequestId = requestId,
                             !.calls = Append(@, call),
                             !.loading = TRUE])

\* await fetch("/preview", ...) of call k settles
AfterFetch ==
  /\ ui.site = "page"
  /\ \E k \in 1..Len(ui.calls), outcome \in {"ok", "notOk", "rejected"} :
       /\ ui.calls[k].at = "fetch"
       /\ PageStep(IF outcome = "rejected" THEN Caught(k)
                   ELSE IF ~IsCurrent(k) THEN Returns(k)
                   ELSE IF outcome = "notOk" THEN NextFile(k)
                   ELSE [ui EXCEPT !.calls[k].at = "json"])

\* await response.json() of call k settles: the images go into the fragment
\* of the call
AfterJson ==
  /\ ui.site = "page"
  /\ \E k \in 1..Len(ui.calls), outcome \in {"ok", "rejected"} :
       /\ ui.calls[k].at = "json"
       /\ PageStep(IF outcome = "rejected" THEN Caught(k) ELSE NextFile(k))

\* the page after its script has pc, err, locals, before renderPreviews() is called
InitPage ==
  /\ Fresh({Input(NoEnv, GoodForm, BasePinFiles, SquareMeta, <<>>, TemplateFull)})
  /\ ui = [site |-> "page", previewRequestId |-> 0, loading |-> FALSE,
           grid |-> [by |-> 0, files |-> 0], calls |-> <<>>]
  /\ recolor = [site |-> "none"] /\ http = [site |-> "none"] /\ peer = [held |-> FALSE]

NextPage == RenderPreviews \/ AfterFetch \/ AfterJson

SpecPage == InitPage /\ [][NextPage]_vars

(***************************************************************************)
(* Two runs of generatePins in one process.  Each run has its own          *)
(* options, icon directory, output directory and settings file; process.env,*)
(* the base pins and the template are the same for both.  generatePins     *)
(* keeps everything in locals of the call, so the run that is waiting at   *)
(* an await is held in `peer` while the other one steps.                   *)
(***************************************************************************)
\* the options and the icon directory of a run
PairRuns ==
  {[optEnv |-> GoodForm, svgDir |-> <<Entry("a.svg", TRUE)>>],
   [optEnv |-> FormEnv(Str("1"), Str("0.5"), Str("1.5"), "absent"),
    svgDir |-> <<Entry("b.SVG", TRUE), Entry("a.svg", TRUE)>>],
   [optEnv |-> GoodForm, svgDir |-> <<Entry("a.svg", TRUE), Entry("bad.svg", TRUE)>>]}

\* a faulty Yield: the resolved options are module-level state, shared by
\* the two runs
YieldSharedOptions ==
  /\ peer.held
  /\ peer' = [held |-> TRUE, optEnv |-> optEnv, svgDir |-> svgDir, disk |-> disk,
              pc |-> pc, err |-> err, locals |-> locals]
  /\ optEnv' = peer.optEnv
  /\ svgDir' = peer.svgDir
  /\ outDirExists' = peer.disk[1]
  /\ outFiles' = peer.disk[2]
  /\ settingsFile' = peer.disk[3]
  /\ fsOps' = peer.disk[4]
  /\ pc' = peer.pc
  /\ err' = peer.err
  /\ cfg' = IF pc = "start" THEN peer.locals[1] ELSE cfg
  /\ svgFiles' = peer.locals[2]
  /\ svgNames' = peer.locals[3]
  /\ dims' = peer.locals[4]
  /\ idx' = peer.locals[5]
  /\ icon' = peer.locals[6]
  /\ rendered' = peer.locals[7]
  /\ mapSettings' = peer.locals[8]
  /\ result' = peer.locals[9]
  /\ UNCHANGED <<procEnv, baseDir, baseMeta, template, recolor, http, ui>>

\* the run that was stepping waits at its await, and the other one goes on
\* from where it waited, with its own options, directories and locals
Yield ==
  /\ peer.held
  /\ peer' = [held |-> TRUE, optEnv |-> optEnv, svgDir |-> svgDir, disk |-> disk,
              pc |-> pc, err |-> err, locals |-> locals]
  /\ optEnv' = peer.optEnv
  /\ svgDir' = peer.svgDir
  /\ outDirExists' = peer.disk[1]
  /\ outFiles' = peer.disk[2]
  /\ settingsFile' = peer.disk[3]
  /\ fsOps' = peer.disk[4]
  /\ pc' = peer.pc
  /\ err' = peer.err
  /\ cfg' = peer.locals[1]
  /\ svgFiles' = peer.locals[2]
  /\ svgNames' = peer.locals[3]
  /\ dims' = peer.locals[4]
  /\ idx' = peer.locals[5]
  /\ icon' = peer.locals[6]
  /\ rendered' = peer.locals[7]
  /\ mapSettings' = peer.locals[8]
  /\ result' = peer.locals[9]
  /\ UNCHANGED <<procEnv, baseDir, baseMeta, template, recolor, http, ui>>

\* two calls of generatePins have been made and neither has taken a step
InitPair ==
  /\ \E first \in PairRuns :
       Fresh({Input(DotEnv, first.optEnv, BasePinFiles, SquareMeta, first.svgDir, TemplateFull)})
  /\ \E second \in PairRuns :
       peer = [held |-> TRUE, optEnv |-> second.optEnv, svgDir |-> second.svgDir,
               disk |-> <<FALSE, NoFiles, NoFile, {}>>, pc |-> "start", err |-> "",
               locals |-> <<<<>>, <<>>, <<>>, <<>>, 1, <<>>, {}, NoFile, NoFile>>]
  /\ recolor = [site |-> "none"] /\ http = [site |-> "none"] /\ ui = [site |-> "none"]

NextPair == Next \/ Yield

SpecPair == InitPair /\ [][NextPair]_vars

(***************************************************************************)
(* Properties.  The expected values below are computed from the inputs in  *)
(* integer arithmetic, apart from the run.                                 *)
(***************************************************************************)
\* n/d rounded to the nearest integer, halves upwards
RoundHalfUp(n, d) == (2 * n + d) \div (2 * d)

Smaller(a, b) == IF a < b THEN a ELSE b

started == pc # "start"

iconScale == cfg["ICON_SCALE"]

compositeScale == cfg["COMPOSITE_SCALE"]

outputScale == cfg["OUTPUT_SCALE"]

defaultMin == Smaller(baseMeta["defaultPin"][1], baseMeta["defaultPin"][2])

\* round(min(baseW, baseH) * s * o) for finite s and o
ExpectedIconSize ==
  RoundHalfUp(defaultMin * iconScale.n * outputScale.n, iconScale.d * outputScale.d)

\* round(round(min(baseW, baseH) * s * o) * c) for finite s, o and c
ExpectedRenderSize == RoundHalfUp(ExpectedIconSize * compositeScale.n, compositeScale.d)

\* min(round(baseW * o), round(baseH * o)) for finite o
ExpectedMinScaled ==
  Smaller(RoundHalfUp(baseMeta["defaultPin"][1] * outputScale.n, outputScale.d),
          RoundHalfUp(baseMeta["defaultPin"][2] * outputScale.n, outputScale.d))

\* the stages of a run in which nothing has been rasterized or written yet
BeforeRaster == {"start", "ensureDir", "list", "access", "readBase", "sizes", "failed"}

NothingWritten == outFiles = NoFiles /\ settingsFile = NoFile /\ rendered = {}

\* C1: every icon is rasterized at round(round(min(baseW, baseH) * s * o) * c),
\* with s in (0, 1], c > 0 and round rounding halves upwards
C1_RenderSize ==
  \A r \in rendered :
    /\ IsFinite(iconScale) /\ IsFinite(compositeScale) /\ IsFinite(outputScale)
    /\ 0 < iconScale.n /\ iconScale.n <= iconScale.d /\ 0 < compositeScale.n
    /\ r.size = ExpectedRenderSize

\* an icon was rasterized in a run where min(baseW, baseH) * s * o ends in .5
C1_Witness ==
  /\ rendered # {}
  /\ (2 * defaultMin * iconScale.n * outputScale.n) % (2 * iconScale.d * outputScale.d)
       = iconScale.d * outputScale.d

\* the composite render size of the configuration exceeds the shorter scaled
\* side of the default base pin (JavaScript comparison)
RenderExceedsBase ==
  LET o      == outputScale
      size   == MathRound(Mul(Mul(Int2Num(defaultMin), iconScale), o))
      render == MathRound(Mul(size, compositeScale))
      w      == MathRound(Mul(Int2Num(baseMeta["defaultPin"][1]), o))
      h      == MathRound(Mul(Int2Num(baseMeta["defaultPin"][2]), o))
  IN  Gt(render, w) \/ Gt(render, h)

\* C2: a configuration whose composite render size exceeds the shorter scaled
\* side of the default base pin is rejected with an error, before anything is
\* rasterized or written
C2_TooLargeRejected ==
  (started /\ RenderExceedsBase) => (pc \in BeforeRaster /\ NothingWritten)

\* a run was rejected because the icon exceeds the base pin, by one pixel or more
C2_Witness ==
  /\ pc = "failed"
  /\ err = "ICON_SCALE is too large; icon exceeds base pin size."
  /\ ExpectedRenderSize > ExpectedMinScaled
  /\ NothingWritten

BadCompositeScale == ~IsFinite(compositeScale) \/ compositeScale.n <= 0

BadIconScale == ~IsFinite(iconScale) \/ iconScale.n <= 0 \/ iconScale.n > iconScale.d

\* C3: with COMPOSITE_SCALE not a finite number > 0 or ICON_SCALE not a finite
\* number in (0, 1] the run fails before any file system operation
C3_FailFast ==
  (started /\ (BadCompositeScale \/ BadIconScale)) =>
    /\ pc = "failed"
    /\ err \in {"COMPOSITE_SCALE must be a positive number.",
                "ICON_SCALE must be a number between 0 and 1."}
    /\ fsOps = {}
    /\ ~outDirExists
    /\ svgFiles = <<>>
    /\ NothingWritten

\* a run failed on an ICON_SCALE above 1 with the file system untouched
C3_Witness ==
  /\ pc = "failed"
  /\ IsFinite(iconScale) /\ iconScale.n > iconScale.d
  /\ ~BadCompositeScale
  /\ fsOps = {}

\* the icons of the directory that generatePins is to make markers for
IconEntries == {svgDir[i] : i \in 1..Len(svgDir)}

NonReservedIcons ==
  {Basename(e.name, ".svg") :
     e \in {f \in IconEntries :
              /\ f.isFile
              /\ EndsWith(ToLowerCase(f.name), ".svg")
              /\ Basename(f.name, ".svg") \notin ReservedNames}}

\* C4: an icon file with a reserved name is never rendered as an icon, and the
\* three base PNGs stay the standalone rasters of the base pins
C4_ReservedSkipped ==
  /\ \A r \in rendered : Basename(r.icon, ".svg") \notin ReservedNames
  /\ \A pin \in ReservedNames :
       (pin \o ".png") \in DOMAIN outFiles => outFiles[pin \o ".png"].kind = "base"

MarkerKeys(doc) == {doc.markerImages[i].key : i \in 1..Len(doc.markerImages)}

\* C5: after a successful run markerImages has the three base keys plus name
\* and name + "Active" of every non-reserved icon, 3 + 2 * N entries in all
C5_MarkerCount ==
  pc = "done" =>
    /\ Len(settingsFile.markerImages) = 3 + 2 * Cardinality(NonReservedIcons)
    /\ Cardinality(MarkerKeys(settingsFile)) = 3 + 2 * Cardinality(NonReservedIcons)
    /\ MarkerKeys(settingsFile) =
         ReservedNames \cup NonReservedIcons \cup {n \o "Active" : n \in NonReservedIcons}

\* C6: after a successful run the output directory holds the three base PNGs
\* and, for each non-reserved icon, its own default and active composite:
\* 3 + 2 * N files, and the settings file holds the updated document
C6_OutputFiles ==
  pc = "done" =>
    /\ Cardinality(DOMAIN outFiles) = 3 + 2 * Cardinality(NonReservedIcons)
    /\ \A pin \in ReservedNames :
         /\ (pin \o ".png") \in DOMAIN outFiles
         /\ outFiles[pin \o ".png"].kind = "base"
         /\ outFiles[pin \o ".png"].base = pin
    /\ \A n \in NonReservedIcons :
         /\ (n \o ".png") \in DOMAIN outFiles
         /\ outFiles[n \o ".png"].kind = "composite"
         /\ Basename(outFiles[n \o ".png"].icon, ".svg") = n
         /\ outFiles[n \o ".png"].base = "defaultPin"
         /\ (n \o "Active.png") \in DOMAIN outFiles
         /\ outFiles[n \o "Active.png"].kind = "composite"
         /\ Basename(outFiles[n \o "Active.png"].icon, ".svg") = n
         /\ outFiles[n \o "Active.png"].base = "defaultPinActive"
    /\ settingsFile = UpdateSettings(template, cfg, svgNames)

Marker(doc, key) ==
  LET i == CHOOSE j \in 1..Len(doc.markerImages) : doc.markerImages[j].key = key
  IN  [uri |-> doc.markerImages[i].uri, color |-> doc.markerImages[i].color]

\* C7: in the output document every base marker and every icon marker has
\* the URI B/<key>.png, B being the base URI without trailing slashes, and
\* the default, active or own colour of its role
C7_MarkerValues ==
  pc = "done" =>
    LET B == StripTrailingSlashes(cfg["MAP_PINS_BASE_URI"])
        marker(key, color) ==
          /\ key \in MarkerKeys(settingsFile)
          /\ Marker(settingsFile, key) = [uri |-> B \o "/" \o key \o ".png", color |-> color]
    IN  /\ marker("defaultPin", cfg["BASE_PIN_COLOR_DEFAULT"])
        /\ marker("defaultPinActive", cfg["BASE_PIN_COLOR_ACTIVE"])
        /\ marker("ownLocationPin", cfg["BASE_PIN_COLOR_OWN"])
        /\ \A n \in NonReservedIcons :
             /\ marker(n, cfg["BASE_PIN_COLOR_DEFAULT"])
             /\ marker(n \o "Active", cfg["BASE_PIN_COLOR_ACTIVE"])

\* C8: with a base pin file missing the run fails before it writes a file
\* or processes an icon
C8_MissingBaseFails ==
  ~(BasePinFiles \subseteq baseDir) =>
    /\ pc \in {"start", "ensureDir", "list", "access", "failed"}
    /\ NothingWritten
    /\ idx = 1

\* a run failed on the missing own-location pin, the other two being there
C8_Witness ==
  /\ pc = "failed"
  /\ err = "ENOENT"
  /\ BasePinFiles \ baseDir = {"ownLocationPin.svg"}
  /\ NothingWritten

\* C9: a run that is given no option at all does not fail on COMPOSITE_SCALE
\* or ICON_SCALE
C9_DefaultsPass ==
  (procEnv = NoEnv /\ optEnv = NoEnv) =>
    ~(pc = "failed" /\ err \in {"COMPOSITE_SCALE must be a positive number.",
                                 "ICON_SCALE must be a number between 0 and 1."})

\* the value of an option in process.env overlaid by options.env
MergedValue(key) == IF optEnv[key].t # "absent" THEN optEnv[key] ELSE procEnv[key]

BuiltInDefault(key) ==
  IF key = "OUTPUT_SCALE" THEN Num(1, 1)
  ELSE IF key \in NumericKeys THEN Num(0, 1)
  ELSE DefaultRaw(key)

\* C10: an option whose merged value is absent, undefined or the empty
\* string resolves to its built-in default, also when the empty string
\* overrides a value of the process environment
C10_EmptyIsDefault ==
  started =>
    \A key \in Keys :
      (MergedValue(key).t # "string" \/ MergedValue(key).s = "") =>
        cfg[key] = BuiltInDefault(key)

\* an empty string in options.env has overridden a value of process.env
C10_Witness ==
  /\ started
  /\ optEnv["CLUSTER_COLOR"] = Str("")
  /\ procEnv["CLUSTER_COLOR"] = Str("#404040")
  /\ cfg["CLUSTER_COLOR"] = "#000"

(***************************************************************************)
(* Failure and order of the steps                                          *)
(***************************************************************************)
BasePngs == {pin \o ".png" : pin \in ReservedNames}

\* the two files the loop writes for the icon file at position j
PngsOf(j) ==
  {Basename(svgFiles[j], ".svg") \o ".png", Basename(svgFiles[j], ".svg") \o "Active.png"}

Failed == pc = "failed"

\* the run has failed inside the loop, at the icon of position idx
FailedAtIcon ==
  /\ Failed
  /\ BasePngs \subseteq DOMAIN outFiles
  /\ err # "TypeError: cannot set properties of undefined"

SettingsUntouched == settingsFile \in {NoFile, OldSettings} /\ mapSettings = NoFile

AfterLoop == {"settings", "writeSettings", "return", "done"}

FailureLeaves ==
  /\ Failed => result = NoFile
  /\ FailedAtIcon =>
       /\ SettingsUntouched
       /\ \A j \in 1..Len(svgFiles) :
            /\ j > idx => \A r \in rendered : r.icon # svgFiles[j]
            /\ j < idx => PngsOf(j) \subseteq DOMAIN outFiles
       /\ DOMAIN outFiles \subseteq BasePngs \cup UNION {PngsOf(j) : j \in 1..idx}
  /\ pc \in AfterLoop =>
       \A j \in 1..Len(svgFiles) :
         /\ svgFiles[j] # "bad.svg"
         /\ \E r \in rendered : r.icon = svgFiles[j]

\* C11: when a step of generatePins fails, rendering or compositing the
\* icon at position k included, no later step runs: the icons after k are
\* not processed and the settings file is not written, the PNG files written
\* before stay, and no icon that cannot be rendered is skipped.
C11_FailureStops == []FailureLeaves /\ [][Failed => UNCHANGED vars]_vars

\* the second icon could not be rendered: the files of the first are there
C11_Witness ==
  /\ FailedAtIcon
  /\ idx = 2
  /\ svgFiles[2] = "bad.svg"
  /\ PngsOf(1) \subseteq DOMAIN outFiles
  /\ settingsFile = NoFile

OrderKept ==
  /\ (rendered # {} \/ pc \in {"render", "compositeDefault", "compositeActive"}
        \/ \E n \in DOMAIN outFiles : outFiles[n].kind = "composite")
       => /\ BasePngs \subseteq DOMAIN outFiles
          /\ svgNames = SvgNames(svgFiles)
  /\ ~SettingsUntouched =>
       /\ idx = Len(svgFiles) + 1
       /\ \A j \in 1..Len(svgFiles) :
            \A n \in PngsOf(j) : n \in DOMAIN outFiles /\ outFiles[n].kind = "composite"
  /\ result # NoFile => mapSettings # NoFile /\ settingsFile = mapSettings

\* C12: the three base pins are recoloured, measured and written before the
\* first icon is composited; the settings document is built and written only
\* after the default and the active PNG of every icon are written; and
\* generatePins returns only after the settings file is written.
C12_StepOrder == OrderKept

\* a run over two icons has returned
C12_Witness ==
  /\ pc = "done"
  /\ Len(svgFiles) = 2
  /\ result # NoFile
  /\ settingsFile = mapSettings

(***************************************************************************)
(* The two variants of an icon and their placement                         *)
(***************************************************************************)
\* the text of an icon file with its black or currentColor paint in `color`
Tinted(file, color) ==
  IF file = "b.SVG" THEN "<svg stroke=\"" \o color \o "\"/>"
  ELSE "<svg fill=\"" \o color \o "\"/>"

\* the canvas side round(side * c) of the intermediate composite
CanvasSide(side) == RoundHalfUp(side * compositeScale.n, compositeScale.d)

\* round((canvas - iconSide) / 2 + x * o * c) for a finite offset x
ExpectedPlace(side, iconSide, x) ==
  LET n == x.n * outputScale.n * compositeScale.n
      d == x.d * outputScale.d * compositeScale.d
  IN  RoundHalfUp((CanvasSide(side) - iconSide) * d + 2 * n, 2 * d)

\* f is the composite of `file`, tinted with the colour of colorKey, over
\* `pin`, placed with the offsets of xKey and yKey
VariantOf(f, file, colorKey, pin, xKey, yKey) ==
  /\ f.kind = "composite"
  /\ f.icon = file
  /\ f.base = pin
  /\ f.svg = Tinted(file, cfg[colorKey])
  /\ f.left = ExpectedPlace(f.w, f.iconWidth, cfg[xKey])
  /\ f.top = ExpectedPlace(f.h, f.iconHeight, cfg[yKey])

\* the non-reserved icon files of the icon directory
IconFilesOfDir ==
  {e.name : e \in {x \in IconEntries : /\ x.isFile
                                       /\ EndsWith(ToLowerCase(x.name), ".svg")
                                       /\ Basename(x.name, ".svg") \notin ReservedNames}}

\* C15: after a pc, err, locals, for every non-reserved icon, <name>.png is the icon in
\* the default icon colour over the default base pin at the default offsets
\* and <name>Active.png is the icon in the active icon colour over the active
\* base pin at the active offsets, both recoloured from the original text.
C15_Variants ==
  pc = "done" =>
    \A file \in IconFilesOfDir :
      LET name == Basename(file, ".svg")
      IN  /\ {name \o ".png", name \o "Active.png"} \subseteq DOMAIN outFiles
          /\ VariantOf(outFiles[name \o ".png"], file, "ICON_COLOR_DEFAULT",
                       "defaultPin", "ICON_OFFSET_X_DEFAULT", "ICON_OFFSET_Y_DEFAULT")
          /\ VariantOf(outFiles[name \o "Active.png"], file, "ICON_COLOR_ACTIVE",
                       "defaultPinActive", "ICON_OFFSET_X_ACTIVE", "ICON_OFFSET_Y_ACTIVE")

\* the same for the runs whose icon names do not collide with a name + Active
C15_DistinctKeys ==
  (\A a, b \in IconFilesOfDir : Basename(a, ".svg") \o "Active" # Basename(b, ".svg"))
    => C15_Variants

\* x * o * c is the integer k
ShiftIs(x, k) ==
  x.n * outputScale.n * compositeScale.n = k * x.d * outputScale.d * compositeScale.d

Shifts == -40..40

Composites == {outFiles[n] : n \in {m \in DOMAIN outFiles : outFiles[m].kind = "composite"}}

OffsetOf(f, axis) ==
  cfg["ICON_OFFSET_" \o axis \o (IF f.base = "defaultPin" THEN "_DEFAULT" ELSE "_ACTIVE")]

\* C16: in the intermediate composite the left position of the icon is its
\* left position at offset 0 plus x * outputScale * compositeScale whenever
\* that product is an integer, and the top position likewise with y: a
\* positive x moves the icon right and a positive y moves it down.
C16_OffsetShift ==
  \A f \in Composites : \A k \in Shifts :
    /\ ShiftIs(OffsetOf(f, "X"), k) =>
         f.left = RoundHalfUp(CanvasSide(f.w) - f.iconWidth, 2) + k
    /\ ShiftIs(OffsetOf(f, "Y"), k) =>
         f.top = RoundHalfUp(CanvasSide(f.h) - f.iconHeight, 2) + k

\* an offset of 10 at output scale 2 and composite scale 2 has moved an icon
\* of odd width by 40 pixels of the intermediate canvas
C16_Witness ==
  \E f \in Composites :
    /\ ShiftIs(OffsetOf(f, "X"), 40)
    /\ (CanvasSide(f.w) - f.iconWidth) % 2 = 1
    /\ f.left = RoundHalfUp(CanvasSide(f.w) - f.iconWidth, 2) + 40

(***************************************************************************)
(* The cluster fields of the settings document                             *)
(***************************************************************************)
\* C17: after a successful run with cluster text colour T and cluster colour
\* C the written document has layerStyles.clusterCount.textColor,
\* clusterSuperiorTextColor and clusterFallbackTextColor equal to T and
\* clusterSuperiorColor and clusterFallbackColor equal to C, whatever the
\* template held.
C17_ClusterFields ==
  pc = "done" =>
    /\ settingsFile.layerStyles.clusterCount.textColor = cfg["CLUSTER_TEXT_COLOR"]
    /\ settingsFile.clusterSuperiorTextColor = cfg["CLUSTER_TEXT_COLOR"]
    /\ settingsFile.clusterFallbackTextColor = cfg["CLUSTER_TEXT_COLOR"]
    /\ settingsFile.clusterSuperiorColor = cfg["CLUSTER_COLOR"]
    /\ settingsFile.clusterFallbackColor = cfg["CLUSTER_COLOR"]

\* the five #old values of the template have been overwritten
C17_Witness ==
  /\ pc = "done"
  /\ template.clusterFallbackTextColor = "#old"
  /\ template.layerStyles.clusterCount.textColor = "#old"
  /\ settingsFile.clusterFallbackTextColor = "#123456"
  /\ settingsFile.layerStyles.clusterCount.textColor = "#123456"
  /\ settingsFile.clusterFallbackColor = "#AA00AA"

\* the template has no layerStyles, or no layerStyles.clusterCount
TemplateBroken ==
  ~template.layerStyles.present \/ ~template.layerStyles.clusterCount.present

\* C18: with a template that has no layerStyles or no
\* layerStyles.clusterCount, generatePins fails and does not write the
\* settings file (a settings file already there stays as it was), and the
\* PNG files written before stay.
C18_BrokenTemplate ==
  /\ [](TemplateBroken => pc \notin {"writeSettings", "return", "done"} /\ result = NoFile)
  /\ [][TemplateBroken =>
          /\ settingsFile' = settingsFile
          /\ pc = "settings" => pc' = "failed" /\ outFiles' = outFiles]_vars

\* the run has failed on the template after its PNG files were written, and
\* the settings file of the earlier run is still there
C18_Witness ==
  /\ TemplateBroken
  /\ Failed
  /\ err = "TypeError: cannot set properties of undefined"
  /\ settingsFile = OldSettings
  /\ BasePngs \cup PngsOf(1) \subseteq DOMAIN outFiles

(***************************************************************************)
(* Invalid numbers, and the order of the markers                           *)
(***************************************************************************)
\* an option that is not a finite number, or finite numbers that make the
\* icon size or the render size fall short of 1
InvalidNumeric ==
  \/ \E k \in NumericKeys : ~IsFinite(cfg[k])
  \/ /\ \A k \in NumericKeys : IsFinite(cfg[k])
     /\ ExpectedIconSize <= 0 \/ ExpectedRenderSize <= 0

\* C19: every invalid numeric configuration (a non-numeric or non-finite
\* ICON_SCALE, COMPOSITE_SCALE, OUTPUT_SCALE or icon offset, or numbers that
\* make the icon size or the render size not a positive integer) makes
\* generatePins fail before any base PNG or icon PNG is written.
C19_InvalidNumericRejected ==
  (started /\ InvalidNumeric) =>
    /\ outFiles = NoFiles
    /\ rendered = {}
    /\ pc \notin AfterLoop

\* the sequence without the later occurrences of its elements
RECURSIVE Dedup(_)
Dedup(s) ==
  IF Len(s) = 0 THEN s
  ELSE LET front == Dedup(SubSeq(s, 1, Len(s) - 1))
       IN  IF \E i \in 1..Len(front) : front[i] = s[Len(s)] THEN front
           ELSE Append(front, s[Len(s)])

\* the non-reserved icon names in ascending order
SortedIconNames ==
  CHOOSE s \in [1..Cardinality(NonReservedIcons) -> NonReservedIcons] :
    \A i, j \in 1..Len(s) : i < j => LocaleLess(s[i], s[j])

RECURSIVE NameThenActive(_)
NameThenActive(names) ==
  IF Len(names) = 0 THEN <<>>
  ELSE <<Head(names), Head(names) \o "Active">> \o NameThenActive(Tail(names))

\* C20: the keys of markerImages are defaultPin, defaultPinActive,
\* ownLocationPin and then, for each non-reserved icon name in ascending
\* order, the name immediately followed by name + "Active" (a key that two
\* icons share is counted where it first appears).
C20_KeyOrder ==
  pc = "done" =>
    [i \in 1..Len(settingsFile.markerImages) |-> settingsFile.markerImages[i].key]
      = Dedup(BasePins \o NameThenActive(SortedIconNames))

(***************************************************************************)
(* Recolouring                                                             *)
(***************************************************************************)
\* the words of a text whose words are separated by single spaces
RECURSIVE SplitWords(_, _)
SplitWords(text, from) ==
  LET ends == {i \in from..Len(text) : CharAt(text, i) = " "}
  IN  IF ends = {} THEN <<SubSeq(text, from, Len(text))>>
      ELSE LET e == CHOOSE i \in ends : \A j \in ends : i <= j
           IN  <<SubSeq(text, from, e - 1)>> \o SplitWords(text, e + 1)

Returned == "out" \in DOMAIN recolor

\* what a word becomes when the whole word black, in any case, becomes `to`
BlackReplaced(word, to) ==
  CASE word \in {"black", "BLACK"} -> to
    [] word = "fill=\"Black\"" -> "fill=\"" \o to \o "\""
    [] word = "a-black" -> "a-" \o to
    [] OTHER -> word

\* C13: applyColorMap with a token made of letters only replaces every
\* whole-word occurrence of the token, in any case, and nothing else: the
\* word black is replaced, blackish, unblack, black_1 and #000000 are not.
C13_WholeWord ==
  (recolor.site = "applyColorMap" /\ Returned) =>
    LET words == SplitWords(recolor.svg, 1)
        to    == recolor.map[1][2]
    IN  recolor.out = Join([i \in 1..Len(words) |-> BlackReplaced(words[i], to)])

C13_Witness ==
  /\ recolor.site = "applyColorMap" /\ Returned
  /\ recolor.map = <<<<"black", "#FF0000">>>>
  /\ recolor.svg = "fill=\"Black\" blackish"
  /\ recolor.out = "fill=\"#FF0000\" blackish"

\* the text holds the literal, in any case
Contains(text, literal) ==
  \E i \in 1..Len(text) :
    /\ i + Len(literal) - 1 <= Len(text)
    /\ ToLowerCase(SubSeq(text, i, i + Len(literal) - 1)) = ToLowerCase(literal)

RingColor == recolor.ring

ActiveColor == recolor.active

\* in the output of the recolouring of the active base pin, every ring token
\* of the input is `ring` and every fill token is `fill`
TokensBecome(ring, fill) ==
  LET words == SplitWords(recolor.svg, 1)
      outs  == SplitWords(recolor.out, 1)
  IN  /\ Len(outs) = Len(words)
      /\ \A i \in 1..Len(words) :
           /\ words[i] \in {"#F7F5F0", "#f7f5f0"} => outs[i] = ring
           /\ words[i] \in {"#000000", "#000", "black"} => outs[i] = fill
           /\ words[i] = "fill=\"Black\"" => outs[i] = "fill=\"" \o fill \o "\""

\* C14 as stated: for every ring colour and every active colour, in the
\* recoloured active base pin every ring token #F7F5F0 has become the ring
\* colour and every fill token (#000000, #000, black) the active colour.
C14_EveryChoice ==
  (recolor.site = "activeBase" /\ Returned) => TokensBecome(RingColor, ActiveColor)

\* the later passes of the map leave the two colours as they are: the ring
\* colour holds no fill token, and the active colour is #000 or black or
\* holds neither
ColorsKept ==
  /\ ~Contains(RingColor, "#000") /\ ~Contains(RingColor, "black")
  /\ \/ ToLowerCase(ActiveColor) \in {"#000", "black"}
     \/ ~Contains(ActiveColor, "#000") /\ ~Contains(ActiveColor, "black")

\* C14, amended: the ring tokens have become the ring colour and the fill
\* tokens the active colour whenever the later passes of the map leave the
\* two colours as they are.
C14_KeptColors ==
  (recolor.site = "activeBase" /\ Returned /\ ColorsKept) =>
    TokensBecome(RingColor, ActiveColor)

C14_Witness ==
  /\ recolor.site = "activeBase" /\ Returned /\ ColorsKept
  /\ ActiveColor = "#000"
  /\ recolor.svg = "#f7f5f0 fill=\"Black\""
  /\ recolor.out = "#FFFFFF fill=\"#000\""

(***************************************************************************)
(* The icon against the active base pin, inside the canvas, and the size   *)
(* of the composited files.                                                *)
(***************************************************************************)
\* the composites over the base pin `pin`
CompositesOn(pin) == {f \in Composites : f.base = pin}

\* C24: whenever an icon is composited onto the active base pin, the render
\* size of the icon does not exceed the shorter side of the scaled active
\* base pin, min(round(activeW * o), round(activeH * o)).
C24_ActiveProtected ==
  /\ pc = "compositeActive" => Leq(dims.iconRenderSize, MathMin(dims.wA, dims.hA))
  /\ \A f \in CompositesOn("defaultPinActive") : f.size <= Smaller(f.w, f.h)

\* the number is zero
IsZero(x) == IsFinite(x) /\ x.n = 0

\* C25: when the default offsets are 0, the icon placed on the default pin
\* lies inside the intermediate canvas of round(W * c) by round(H * c):
\* 0 <= left, 0 <= top, left + icon.width <= canvas width and
\* top + icon.height <= canvas height, for c below 1 as well as above.
C25_InsideCanvas ==
  (started /\ IsZero(cfg["ICON_OFFSET_X_DEFAULT"]) /\ IsZero(cfg["ICON_OFFSET_Y_DEFAULT"])) =>
    \A f \in CompositesOn("defaultPin") :
      /\ 0 <= f.left
      /\ 0 <= f.top
      /\ f.left + f.iconWidth <= CanvasSide(f.w)
      /\ f.top + f.iconHeight <= CanvasSide(f.h)

\* at composite scale 0.5 and offsets 0, an icon trimmed to less than its
\* render size sits on a default pin with an odd margin to split, and an icon
\* fills the canvas height exactly
C25_Witness ==
  /\ started
  /\ IsZero(cfg["ICON_OFFSET_X_DEFAULT"]) /\ IsZero(cfg["ICON_OFFSET_Y_DEFAULT"])
  /\ IsFinite(compositeScale) /\ 2 * compositeScale.n = compositeScale.d
  /\ \E f \in CompositesOn("defaultPin") :
       /\ f.iconWidth < f.size
       /\ (CanvasSide(f.w) - f.iconWidth) % 2 = 1
       /\ f.top + f.iconHeight = CanvasSide(f.h)

\* round(side * o) for a finite output scale o
ScaledBase(pin, axis) == RoundHalfUp(baseMeta[pin][axis] * outputScale.n, outputScale.d)

\* the file is w by h pixels, and so is the base PNG named `pin`
SizedAs(f, pin) ==
  /\ f.w = ScaledBase(pin, 1)
  /\ f.h = ScaledBase(pin, 2)
  /\ outFiles[pin \o ".png"].w = f.w
  /\ outFiles[pin \o ".png"].h = f.h

\* C26: after a pc, err, locals, for every non-reserved icon, <name>.png is
\* round(defaultW * o) by round(defaultH * o) pixels, the size of
\* defaultPin.png, and <name>Active.png is round(activeW * o) by
\* round(activeH * o) pixels, the size of defaultPinActive.png.
C26_MarkerSizes ==
  pc = "done" =>
    \A file \in IconFilesOfDir :
      /\ SizedAs(outFiles[Basename(file, ".svg") \o ".png"], "defaultPin")
      /\ SizedAs(outFiles[Basename(file, ".svg") \o "Active.png"], "defaultPinActive")

\* the same for each composite by the base pin it was drawn over, whatever file
\* name it ended under
C26_OwnBase ==
  pc = "done" => \A f \in Composites : SizedAs(f, f.base)

(***************************************************************************)
(* The icons a successful run needs, and the fields it leaves alone.       *)
(***************************************************************************)
\* C27: a successful run has generated the marker pair of at least one
\* non-reserved icon, and a run over an icon directory without an SVG of a
\* non-reserved name, once it has enumerated the directory, has failed with
\* the no-icons error and never writes the settings file.
C27_NeedsAnIcon ==
  /\ pc = "done" =>
       \E name \in NonReservedIcons : {name \o ".png", name \o "Active.png"} \subseteq DOMAIN outFiles
  /\ (NonReservedIcons = {} /\ pc \notin {"start", "ensureDir", "list"}) =>
       /\ pc = "failed"
       /\ err \in {"No SVG files found in svg folder.", ScalesError(cfg)}
       /\ settingsFile = NoFile

\* the document with the six fields a run sets put back to the template's
WithTemplateFields(doc) ==
  [doc EXCEPT
    !.markerImages = template.markerImages,
    !.clusterSuperiorColor = template.clusterSuperiorColor,
    !.clusterSuperiorTextColor = template.clusterSuperiorTextColor,
    !.clusterFallbackColor = template.clusterFallbackColor,
    !.clusterFallbackTextColor = template.clusterFallbackTextColor,
    !.layerStyles.clusterCount.textColor = template.layerStyles.clusterCount.textColor]

\* C28: in the settings document a run writes, every field of the template
\* other than markerImages, the four cluster colour fields and
\* layerStyles.clusterCount.textColor has the template's value, the other
\* fields of layerStyles and of layerStyles.clusterCount included, and no
\* step of the run changes the template.
C28_OtherFieldsKept ==
  /\ [](pc \in {"return", "done"} => WithTemplateFields(settingsFile) = template)
  /\ [][/\ template' = template
        /\ pc = "writeSettings" => WithTemplateFields(settingsFile') = template]_vars

\* a run has written the document with new cluster colours, and the
\* template's mapStyle, symbolSize and textSize are in it
C28_Witness ==
  /\ pc = "done"
  /\ settingsFile.layerStyles.clusterCount.textColor # template.layerStyles.clusterCount.textColor
  /\ settingsFile.mapStyle = "streets"
  /\ settingsFile.layerStyles.symbolSize = "1"
  /\ settingsFile.layerStyles.clusterCount.textSize = "12"

(***************************************************************************)
(* The temporary directory of a request.                                   *)
(***************************************************************************)
\* the temporary directory of the request, or something under it, exists
TempExists == http.tmp \/ http.svg \/ outDirExists \/ settingsFile # NoFile

\* C23: a request to POST /preview without a file is answered with 400 and
\* never creates a temporary directory; for a request with a file the
\* temporary directory is gone when the handler completes, whether
\* generatePins and the reading of the PNGs succeeded or threw, and it has
\* been removed exactly once.
C23_PreviewCleansUp ==
  http.site = "preview" =>
    /\ Len(http.files) = 0 => ~http.made /\ ~TempExists /\ http.rmCount = 0
    /\ http.at = "done" =>
         IF Len(http.files) = 0 THEN http.status = 400
         ELSE /\ ~TempExists
              /\ http.rmCount = 1 /\ http.rm = "done"
              /\ http.status \in {200, 500}

\* a preview whose generatePins threw after it had written PNG files has
\* completed with 500
C23_Witness ==
  /\ http.site = "preview" /\ http.at = "done"
  /\ pc = "failed" /\ "write" \in fsOps
  /\ http.status = 500 /\ http.rmCount = 1

\* C22: for a request to POST /generate that passed the upload check, once
\* the response has finished or its connection has closed, the handler has
\* completed and no removal is under way, the temporary directory and
\* everything under it no longer exist.
C22_GenerateCleansUp ==
  (/\ http.site = "generate" /\ http.made
   /\ http.at = "done" /\ http.res # "open" /\ http.rm # "pending") => ~TempExists

(***************************************************************************)
(* Overlapping calls of renderPreviews.                                    *)
(***************************************************************************)
\* the call that took the step is the most recent one
ByLatest ==
  \A k \in 1..Len(ui.calls) : ui'.calls[k] # ui.calls[k] => k = ui'.previewRequestId

\* C29: in any interleaving of overlapping renderPreviews calls, a step that
\* replaces the content of the preview grid or clears the loading indicator
\* is a step of the most recent call, never of a superseded one, and once
\* the most recent call has completed the loading indicator is cleared.
C29_OnlyLatestCommits ==
  /\ [][/\ ui'.grid # ui.grid => ByLatest /\ ui'.grid.by = ui'.previewRequestId
        /\ (ui.loading /\ ~ui'.loading) => ByLatest
        /\ ~ByLatest => ui'.grid = ui.grid /\ ui'.loading = ui.loading]_vars
  /\ [](ui.previewRequestId > 0 =>
          /\ ui.calls[ui.previewRequestId].at # "returned"
          /\ ui.calls[ui.previewRequestId].at = "committed" =>
               ~ui.loading /\ ui.grid.by = ui.previewRequestId)

\* two calls were superseded and have returned, and the most recent call
\* has replaced the grid with the cards of its two files
C29_Witness ==
  /\ ui.site = "page" /\ ui.previewRequestId = 3
  /\ ui.calls[3].at = "committed"
  /\ ui.calls[1].at = "returned" /\ ui.calls[2].at = "returned"
  /\ ~ui.loading /\ ui.grid = [by |-> 3, files |-> 2]

(***************************************************************************)
(* Two runs at once.  What a run leaves when it runs alone is computed     *)
(* from its own options and icon directory, file by file.                  *)
(***************************************************************************)
\* the composite of the rendering `rend` over `pin`, as the run with the
\* options c places it
SoloComposite(c, pin, rend, w, h, variant) ==
  LET x == Mul(c["ICON_OFFSET_X_" \o variant], c["OUTPUT_SCALE"])
      y == Mul(c["ICON_OFFSET_Y_" \o variant], c["OUTPUT_SCALE"])
  IN  CompositeImage(pin, rend, w, h,
                     Placement(w, rend.width, x, c["COMPOSITE_SCALE"]),
                     Placement(h, rend.height, y, c["COMPOSITE_SCALE"]))

\* the output files after the icons list[i], list[i + 1], ... were added to
\* `files`, up to the first one that cannot be rendered
RECURSIVE SoloIcons(_, _, _, _, _)
SoloIcons(list, i, c, d, files) ==
  IF i > Len(list) THEN [files |-> files, ok |-> TRUE]
  ELSE IF ~IsSvg(IconSvg(list[i])) THEN [files |-> files, ok |-> FALSE]
  ELSE LET name == Basename(list[i], ".svg")
           rend(color) == IconRend(list[i], color, applyActiveColor(IconSvg(list[i]), color),
                                   IntOf(d.iconRenderSize))
           one == WriteFile(files, name \o ".png",
                            SoloComposite(c, "defaultPin", rend(c["ICON_COLOR_DEFAULT"]),
                                          d.wD, d.hD, "DEFAULT"))
           two == WriteFile(one, name \o "Active.png",
                            SoloComposite(c, "defaultPinActive", rend(c["ICON_COLOR_ACTIVE"]),
                                          d.wA, d.hA, "ACTIVE"))
       IN  SoloIcons(list, i + 1, c, d, two)

\* the output files and the settings file of a run with the options o over
\* the icon directory dir, started on an empty output directory
Solo(o, dir) ==
  LET c    == ResolveConfig(MergeEnv(procEnv, o))
      d    == ComputeDims(baseMeta, c)
      list == ListSvgFiles(dir)
      base(files, pin, w, h) ==
        WriteFile(files, pin \o ".png",
                  BaseImage(pin, applyColorMap(BaseSvg(pin), BaseColorMap(pin, c)),
                            IntOf(w), IntOf(h)))
  IN  IF ScalesError(c) # "" \/ Len(list) = 0 \/ SizeError(d) # ""
      THEN [files |-> NoFiles, settings |-> NoFile]
      ELSE LET bases == base(base(base(NoFiles, "defaultPin", d.wD, d.hD),
                                  "defaultPinActive", d.wA, d.hA),
                             "ownLocationPin", d.wO, d.hO)
               icons == SoloIcons(list, 1, c, d, bases)
           IN  [files |-> icons.files,
                settings |-> IF icons.ok THEN UpdateSettings(template, c, SvgNames(list))
                             ELSE NoFile]

\* C21: two runs of generatePins with disjoint icon, output and settings
\* paths, sharing process.env, the base pins and the template, do not
\* interfere under any interleaving: when a run has ended, its output
\* files and its settings file are those of the same run executed alone.
C21_RunsIndependent ==
  peer.held =>
    /\ pc \in {"done", "failed"} =>
         LET alone == Solo(optEnv, svgDir)
         IN  outFiles = alone.files /\ settingsFile = alone.settings
    /\ peer.pc \in {"done", "failed"} =>
         LET alone == Solo(peer.optEnv, peer.svgDir)
         IN  peer.disk[2] = alone.files /\ peer.disk[3] = alone.settings

\* two runs with different options and icons, interleaved, have both
\* succeeded, each with its own files and settings
C21_Witness ==
  /\ peer.held
  /\ pc = "done" /\ peer.pc = "done"
  /\ optEnv # peer.optEnv
  /\ "b.SVG.png" \in DOMAIN outFiles /\ "b.SVG.png" \notin DOMAIN peer.disk[2]
  /\ settingsFile # peer.disk[3]
  /\ outFiles["a.png"] # peer.disk[2]["a.png"]

====
